---- MODULE Spec2Model ----
(***************************************************************************)
(* The dual-tier response cache of the FluxAI gateway                      *)
(* (src/app/services/cache.py) with the similarity utilities               *)
(* (src/app/utils/vector.py) and the embedding adapter                     *)
(* (src/app/services/embeddings.py) it calls.                              *)
(*                                                                         *)
(* Conventions.  Python None is the record None; a Python dict is a TLA+   *)
(* record whose DOMAIN is the set of keys present; a float similarity is   *)
(* an integer number of millionths (ScoreScale = 1.0); sequences are       *)
(* 1-based where Python lists are 0-based.  The store (Redis) is a         *)
(* function from the keys present to their entry; an entry carries the     *)
(* absolute time at which it expires.                                      *)
(***************************************************************************)
EXTENDS Integers, Sequences, FiniteSets, TLC

VARIABLES
    enabled,            \* CacheService.enabled and redis_client is not None
    semantic_enabled,   \* CacheService.semantic_enabled
    exact_match_first,  \* settings.CACHE_EXACT_MATCH_FIRST
    stats,              \* CacheService.stats
    redis,              \* the key space of the store behind redis_client
    now,                \* the store's clock, in seconds
    last,               \* the last call made on the service, with what it returned
    written,            \* history: per string key, the value last set, when, for which pair
    done,               \* history: how many steps were taken
    faulted,            \* history: whether a call has failed
    vq,                 \* the similarity-engine scenario under evaluation
    tasks               \* the calls of get in flight: where each is suspended

vars == <<enabled, semantic_enabled, exact_match_first, stats, redis, now, last,
          written, done, faulted, vq, tasks>>

(***************************************************************************)
(* Bounds of the model.                                                    *)
(***************************************************************************)
MaxOps == 3             \* steps explored in one behaviour
EmbeddingDim == 2       \* settings.EMBEDDING_DIMENSION, scaled down from 1536
MaxCandidates == 2      \* candidates of one similarity search
MaxTasks == 3           \* concurrent calls of get
MaxBatch == 2           \* texts of one embedding batch

(***************************************************************************)
(* Program constants (src/app/core/config.py).                             *)
(***************************************************************************)
CACHE_TTL_SECONDS == 3600
EMBEDDING_CACHE_TTL == 86400
CACHE_SIMILARITY_THRESHOLD == 950000    \* 0.95 in millionths
ScoreScale == 1000000                   \* the float 1.0

None == [none |-> TRUE]

(***************************************************************************)
(* Inputs: (prompt, model_id) pairs.  Model identifiers may contain ':'   *)
(* (the Bedrock identifiers of src/app/models/pricing.py do); " " is a     *)
(* whitespace-only prompt.                                                 *)
(***************************************************************************)
Pairs == {<<"q", "m">>, <<"x:q", "m">>, <<" ", "m">>, <<"q", "m:x">>}
Contents == {"a", "b"}

Usage(c) ==
    IF c = "a" THEN [input_tokens |-> 1, output_tokens |-> 2, total_tokens |-> 3]
    ELSE [input_tokens |-> 4, output_tokens |-> 1, total_tokens |-> 5]

\* What BedrockService.invoke returns and invoke_model passes to set: a dict
\* with the keys model_id, content and usage (no 'timestamp').
Responses(m) ==
    {[model_id |-> m, content |-> c, usage |-> Usage(c)] : c \in Contents}

(***************************************************************************)
(* Serialisation and key derivation.                                       *)
(***************************************************************************)
\* json.dumps: a non-empty string that json.loads maps back to the value.
JsonDumps(x) == [json |-> x]

JsonLoads(s) == s.json

\* hashlib.sha256(content.encode()).hexdigest()[:16], taken to be free of
\* collisions: equal digests exactly for equal content strings.
Sha256Hex16(content) == "#" \o content

_generate_exact_cache_key(prompt, model_id) ==
    "cache:exact:" \o Sha256Hex16(model_id \o ":" \o prompt)

_generate_semantic_key(model_id) == "cache:semantic:" \o model_id \o ":entries"

_generate_embedding_key(cache_id) == "cache:embedding:" \o cache_id

_generate_response_key(cache_id) == "cache:response:" \o cache_id

\* response.get('timestamp', '')
TimestampOf(response) ==
    IF "timestamp" \in DOMAIN response THEN response.timestamp ELSE ""

CacheIdOf(prompt, model_id, response) ==
    Sha256Hex16(model_id \o ":" \o prompt \o ":" \o TimestampOf(response))

(***************************************************************************)
(* The store.  A key is present from the write that sets it until its      *)
(* expiry time; Redis answers as if an expired key had been deleted.       *)
(***************************************************************************)
EmptyStore == [k \in {} |-> None]

\* a setex that would keep an existing key as it is (SET ... NX)
SetexNx(r, key, ttl, value, t) ==
    IF key \in DOMAIN r THEN r
    ELSE [k \in DOMAIN r \cup {key} |->
             IF k = key THEN [type |-> "string", val |-> value, exp |-> t + ttl]
             ELSE r[k]]

\* setex(key, ttl, value)
Setex(r, key, ttl, value, t) ==
    [k \in DOMAIN r \cup {key} |->
        IF k = key THEN [type |-> "string", val |-> value, exp |-> t + ttl]
        ELSE r[k]]

\* get(key): the value, or None
RedisGet(r, key) == IF key \in DOMAIN r THEN r[key].val ELSE None

\* lpush(key, item): the item goes to the head; a new list has no expiry (-1)
Lpush(r, key, item) ==
    [k \in DOMAIN r \cup {key} |->
        IF k = key
        THEN IF key \in DOMAIN r
             THEN [r[key] EXCEPT !.val = <<item>> \o @]
             ELSE [type |-> "list", val |-> <<item>>, exp |-> -1]
        ELSE r[k]]

\* an expire that would leave a TTL already set as it is (EXPIRE ... NX)
ExpireNx(r, key, ttl, t) ==
    IF key \in DOMAIN r /\ r[key].exp = -1 THEN [r EXCEPT ![key].exp = t + ttl] ELSE r

\* expire(key, ttl)
Expire(r, key, ttl, t) ==
    IF key \in DOMAIN r THEN [r EXCEPT ![key].exp = t + ttl] ELSE r

\* lrange(key, 0, -1): the whole list, empty for an absent key
Lrange(r, key) == IF key \in DOMAIN r THEN r[key].val ELSE <<>>

\* a store that would still answer at the very second of expiry
LiveInclusive(exp, t) == exp = -1 \/ t <= exp

\* whether an entry written with expiry time exp is still there at time t
Live(exp, t) == exp = -1 \/ t < exp

\* what is left of the key space at time t
Purge(r, t) == [k \in {j \in DOMAIN r : Live(r[j].exp, t)} |-> r[k]]

(***************************************************************************)
(* Similarity engine (src/app/utils/vector.py).  Vectors are sequences of  *)
(* integers; the vectors used have integer norms, so that every cosine is  *)
(* a rational the millionths represent (3-4-5, and 19-6-1-1-1 of norm 20). *)
(***************************************************************************)
RECURSIVE Dot(_, _)
Dot(a, b) == IF a = <<>> THEN 0 ELSE Head(a) * Head(b) + Dot(Tail(a), Tail(b))

\* np.linalg.norm
Norm(v) ==
    LET ss == Dot(v, v) IN CHOOSE n \in 0..ss : n * n <= ss /\ ss < (n + 1) * (n + 1)

\* x / y, as a number of millionths, truncated toward zero
Ratio(x, y) ==
    IF x >= 0 THEN (x * ScoreScale) \div y ELSE -(((-x) * ScoreScale) \div y)

\* np.clip(x, -1.0, 1.0)
Clip(x) == IF x > ScoreScale THEN ScoreScale ELSE IF x < -ScoreScale THEN -ScoreScale ELSE x

ZeroVector(n) == [i \in 1..n |-> 0]

\* a cosine that would raise on a vector of norm zero
cosine_similarity_zero_raises(vec1, vec2) ==
    IF vec1 = <<>> \/ vec2 = <<>> THEN [score |-> 0]
    ELSE IF Len(vec1) # Len(vec2) THEN [error |-> "ValueError"]
    ELSE IF Norm(vec1) = 0 \/ Norm(vec2) = 0 THEN [error |-> "ZeroDivisionError"]
    ELSE [score |-> Clip(Ratio(Dot(vec1, vec2), Norm(vec1) * Norm(vec2)))]

\* cosine_similarity: the score returned, or the error raised
cosine_similarity(vec1, vec2) ==
    IF vec1 = <<>> \/ vec2 = <<>> THEN [score |-> 0]
    ELSE IF Len(vec1) # Len(vec2) THEN [error |-> "ValueError"]
    ELSE IF Norm(vec1) = 0 \/ Norm(vec2) = 0 THEN [score |-> 0]
    ELSE [score |-> Clip(Ratio(Dot(vec1, vec2), Norm(vec1) * Norm(vec2)))]

\* one candidate of batch_cosine_similarity's loop
CandidateScore(query_vec, query_norm, vec) ==
    IF vec = <<>> \/ Len(vec) # Len(query_vec) THEN 0
    ELSE IF Norm(vec) = 0 THEN 0
    ELSE Clip(Ratio(Dot(query_vec, vec), query_norm * Norm(vec)))

batch_cosine_similarity(query_vec, vectors) ==
    IF query_vec = <<>> \/ vectors = <<>> THEN <<>>
    ELSE IF Norm(query_vec) = 0 THEN [i \in 1..Len(vectors) |-> 0]
    ELSE [i \in 1..Len(vectors) |->
            CandidateScore(query_vec, Norm(query_vec), vectors[i])]

\* an argmax that would return the last index holding the maximum
ArgMaxLast(similarities) ==
    CHOOSE i \in 1..Len(similarities) :
        /\ \A j \in 1..Len(similarities) : similarities[j] <= similarities[i]
        /\ \A j \in (i + 1)..Len(similarities) : similarities[j] < similarities[i]

\* np.argmax: the first index holding the maximum
ArgMax(similarities) ==
    CHOOSE i \in 1..Len(similarities) :
        /\ \A j \in 1..Len(similarities) : similarities[j] <= similarities[i]
        /\ \A j \in 1..(i - 1) : similarities[j] < similarities[i]

\* an acceptance test that would demand a score strictly above the threshold
BestStrictlyAbove(similarities, threshold) ==
    IF similarities = <<>> THEN None
    ELSE LET max_idx == ArgMax(similarities)
             max_similarity == similarities[max_idx]
         IN IF max_similarity > threshold
            THEN [idx |-> max_idx, similarity |-> max_similarity]
            ELSE None

\* find_most_similar from line 146 on, given the similarities
BestAbove(similarities, threshold) ==
    IF similarities = <<>> THEN None
    ELSE LET max_idx == ArgMax(similarities)
             max_similarity == similarities[max_idx]
         IN IF max_similarity >= threshold
            THEN [idx |-> max_idx, similarity |-> max_similarity]
            ELSE None

find_most_similar(query_vec, vectors, threshold) ==
    BestAbove(batch_cosine_similarity(query_vec, vectors), threshold)

(***************************************************************************)
(* Embedding adapter (src/app/services/embeddings.py).                     *)
(***************************************************************************)
\* The provider's vector for a text (Titan embeds text.strip()).
ProviderEmbedding(text) == IF text = "q" THEN <<3, 4>> ELSE <<4, 3>>

\* a blank test that would look for the empty string only
IsBlankEmptyOnly(text) == text = ""

\* not text or not text.strip(): the text is empty or whitespace only
IsBlank(text) == text \in {"", " ", " \t\n"}

\* stop_after_attempt(3)
RetryAttempts == 3

\* generate_embedding under its retry decorator: outcomes[i] is the provider's
\* answer to attempt i ("ok", "empty" or "error"), were it made; the result
\* is the vector returned, or None when the last attempt's error is re-raised.
RECURSIVE GenerateEmbeddingFrom(_, _, _)
GenerateEmbeddingFrom(text, outcomes, attempt) ==
    IF IsBlank(text) THEN [vec |-> ZeroVector(EmbeddingDim), calls |-> attempt - 1]
    ELSE IF outcomes[attempt] = "ok"
         THEN [vec |-> ProviderEmbedding(text), calls |-> attempt]
    ELSE IF outcomes[attempt] = "empty"
         THEN [vec |-> ZeroVector(EmbeddingDim), calls |-> attempt]
    ELSE IF attempt < RetryAttempts
         THEN GenerateEmbeddingFrom(text, outcomes, attempt + 1)
    ELSE None

\* a generate_embedding without the retry decorator
generate_embedding_once(text, outcomes) ==
    IF IsBlank(text) THEN [vec |-> ZeroVector(EmbeddingDim), calls |-> 0]
    ELSE IF outcomes[1] = "ok" THEN [vec |-> ProviderEmbedding(text), calls |-> 1]
    ELSE IF outcomes[1] = "empty" THEN [vec |-> ZeroVector(EmbeddingDim), calls |-> 1]
    ELSE None

generate_embedding(text, outcomes) == GenerateEmbeddingFrom(text, outcomes, 1)

\* a batch that would let the failure of one item abort the whole call
generate_embeddings_batch_aborting(items) ==
    IF \E i \in 1..Len(items) : generate_embedding(items[i][1], items[i][2]) = None
    THEN None
    ELSE [embeddings |->
             [i \in 1..Len(items) |->
                 generate_embedding(items[i][1], items[i][2]).vec]]

\* generate_embeddings_batch: items[i] is the i-th text with the provider's
\* answers to the attempts made for it; the result holds the list returned
generate_embeddings_batch(items) ==
    IF items = <<>> THEN [embeddings |-> <<>>]
    ELSE [embeddings |->
             [i \in 1..Len(items) |->
                 LET embedding == generate_embedding(items[i][1], items[i][2])
                 IN IF embedding = None THEN ZeroVector(EmbeddingDim)
                    ELSE embedding.vec]]

\* the provider behaviours explored by the cache model
ProviderUp == <<"ok", "ok", "ok">>

ProviderDown == <<"error", "error", "error">>

(***************************************************************************)
(* CacheService (src/app/services/cache.py).  A fault set names the calls  *)
(* that raise if they are made: "get_exact", "lrange", "get_embedding",    *)
(* "get_response" in a lookup; "set_exact", "set_embedding",               *)
(* "set_response", "lpush", "expire" in a store; "flushdb" in clear.       *)
(***************************************************************************)
ZeroStats == [exact_hits |-> 0, semantic_hits |-> 0, misses |-> 0, total_requests |-> 0]

\* an exact path that would tag its result as a semantic one
TagExactAsSemantic(response) == [cache_type |-> "semantic"] @@ response

\* result["cache_type"] = "exact"
TagExact(response) == [cache_type |-> "exact"] @@ response

\* a semantic path that would return its match without the score
TagSemanticUnscored(response, similarity) == [cache_type |-> "semantic"] @@ response

\* response["cache_type"] = "semantic"; response["similarity_score"] = similarity
TagSemantic(response, similarity) ==
    [cache_type |-> "semantic", similarity_score |-> similarity] @@ response

\* an exact path that would return the entry found without counting the hit
_try_exact_match_uncounted(r, prompt, model_id, faults) ==
    LET cache_key == _generate_exact_cache_key(prompt, model_id)
        cached_data == RedisGet(r, cache_key)
    IN IF "get_exact" \in faults
       THEN [result |-> None, hit |-> FALSE, failed |-> "store"]
       ELSE IF cached_data # None
            THEN [result |-> [cache_type |-> "exact"] @@ JsonLoads(cached_data),
                  hit |-> FALSE, failed |-> "none"]
       ELSE [result |-> None, hit |-> FALSE, failed |-> "none"]

\* _try_exact_match: what it returns and whether it counted an exact hit
_try_exact_match(r, prompt, model_id, faults) ==
    LET cache_key == _generate_exact_cache_key(prompt, model_id)
        cached_data == RedisGet(r, cache_key)
    IN IF "get_exact" \in faults
       THEN [result |-> None, hit |-> FALSE, failed |-> "store"]
       ELSE IF cached_data # None
            THEN [result |-> TagExact(JsonLoads(cached_data)), hit |-> TRUE,
                  failed |-> "none"]
       ELSE [result |-> None, hit |-> FALSE, failed |-> "none"]

\* the loop of _try_semantic_match: the candidates whose embedding is readable
RECURSIVE ValidCacheIds(_, _)
ValidCacheIds(r, cache_ids) ==
    IF cache_ids = <<>> THEN <<>>
    ELSE IF RedisGet(r, _generate_embedding_key(Head(cache_ids))) # None
         THEN <<Head(cache_ids)>> \o ValidCacheIds(r, Tail(cache_ids))
    ELSE ValidCacheIds(r, Tail(cache_ids))

\* a lookup that would take the match's ID from the unfiltered candidate list
MatchedIdUnfiltered(cache_ids, valid_cache_ids, idx) == cache_ids[idx]

\* cache_id = valid_cache_ids[idx] (line 140; idx counts from 1 here)
MatchedId(cache_ids, valid_cache_ids, idx) == valid_cache_ids[idx]

SemanticNone(failed) == [result |-> None, hit |-> FALSE, failed |-> failed]

\* _try_semantic_match: what it returns, whether it counted a semantic hit, and
\* which call it made raised ("none", "embedding" or "store")
_try_semantic_match(r, semantic, threshold, prompt, model_id, outcomes, faults) ==
    IF ~semantic THEN SemanticNone("none")
    ELSE LET query_embedding == generate_embedding(prompt, outcomes)
             cache_ids == Lrange(r, _generate_semantic_key(model_id))
             valid_cache_ids == ValidCacheIds(r, cache_ids)
             embeddings == [i \in 1..Len(valid_cache_ids) |->
                 JsonLoads(RedisGet(r, _generate_embedding_key(valid_cache_ids[i])))]
         IN IF query_embedding = None THEN SemanticNone("embedding")
            ELSE IF "lrange" \in faults THEN SemanticNone("store")
            ELSE IF cache_ids = <<>> THEN SemanticNone("none")
            ELSE IF "get_embedding" \in faults THEN SemanticNone("store")
            ELSE IF embeddings = <<>> THEN SemanticNone("none")
            ELSE LET found == find_most_similar(query_embedding.vec, embeddings, threshold)
                 IN IF found = None THEN SemanticNone("none")
                    ELSE IF "get_response" \in faults THEN SemanticNone("store")
                    ELSE LET response_data ==
                                 RedisGet(r, _generate_response_key(
                                     MatchedId(cache_ids, valid_cache_ids, found.idx)))
                         IN IF response_data = None THEN SemanticNone("none")
                            ELSE [result |-> TagSemantic(JsonLoads(response_data),
                                                         found.similarity),
                                  hit |-> TRUE, failed |-> "none"]

Bump(st, counter) == [st EXCEPT ![counter] = @ + 1]

\* handlers that would re-raise what they caught
PropagatesAlways(failed) == TRUE

\* "except Exception as e: logger.error(...)" (lines 90, 160, 265, 334): whether
\* an exception raised inside the try block reaches the caller
Propagates(failed) == FALSE

\* a get that would run the semantic path first and consult the exact key
\* only when no semantic match was found
CacheGetEnabledSemanticFirst(st, r, semantic, exact_first, threshold, prompt, model_id, outcomes, faults) ==
    LET counted == Bump(st, "total_requests")
        sem == _try_semantic_match(r, semantic, threshold, prompt, model_id,
                                   outcomes, faults)
        after_sem == IF sem.hit THEN Bump(counted, "semantic_hits") ELSE counted
        exact == IF exact_first THEN _try_exact_match(r, prompt, model_id, faults)
                 ELSE [result |-> None, hit |-> FALSE, failed |-> "none"]
        after_exact == IF exact.hit THEN Bump(after_sem, "exact_hits") ELSE after_sem
    IN IF sem.result # None
       THEN [result |-> sem.result, stats |-> after_sem,
             exact_failed |-> "none", semantic_failed |-> sem.failed,
             raised |-> FALSE]
       ELSE IF exact.result # None
            THEN [result |-> exact.result, stats |-> after_exact,
                  exact_failed |-> exact.failed, semantic_failed |-> sem.failed,
                  raised |-> FALSE]
       ELSE [result |-> None, stats |-> Bump(after_exact, "misses"),
             exact_failed |-> exact.failed, semantic_failed |-> sem.failed,
             raised |-> FALSE]

\* CacheService.get from line 181 on (the cache is enabled): the result, the
\* statistics after the call, and what failed inside the two paths
CacheGetEnabled(st, r, semantic, exact_first, threshold, prompt, model_id, outcomes, faults) ==
    LET counted == Bump(st, "total_requests")
        exact == IF exact_first THEN _try_exact_match(r, prompt, model_id, faults)
                 ELSE [result |-> None, hit |-> FALSE, failed |-> "none"]
        after_exact == IF exact.hit THEN Bump(counted, "exact_hits") ELSE counted
        sem == _try_semantic_match(r, semantic, threshold, prompt, model_id,
                                   outcomes, faults)
        after_sem == IF sem.hit THEN Bump(after_exact, "semantic_hits") ELSE after_exact
    IN IF exact.result # None
       THEN [result |-> exact.result, stats |-> after_exact,
             exact_failed |-> exact.failed, semantic_failed |-> "none",
             raised |-> FALSE]
       ELSE IF sem.result # None
            THEN [result |-> sem.result, stats |-> after_sem,
                  exact_failed |-> exact.failed, semantic_failed |-> sem.failed,
                  raised |-> exact.failed # "none" /\ Propagates(exact.failed)]
       ELSE [result |-> None, stats |-> Bump(after_sem, "misses"),
             exact_failed |-> exact.failed, semantic_failed |-> sem.failed,
             raised |-> \/ exact.failed # "none" /\ Propagates(exact.failed)
                        \/ sem.failed # "none" /\ Propagates(sem.failed)]

\* a get that would generate the query embedding before consulting either
\* path, and give up as a miss when the provider fails
CacheGetEmbeddingFirst(st, r, on, semantic, exact_first, threshold, prompt, model_id, outcomes, faults) ==
    IF ~on
    THEN [result |-> None, stats |-> st, exact_failed |-> "none",
          semantic_failed |-> "none", raised |-> FALSE]
    ELSE IF semantic /\ generate_embedding(prompt, outcomes) = None
         THEN [result |-> None,
               stats |-> Bump(Bump(st, "total_requests"), "misses"),
               exact_failed |-> "none", semantic_failed |-> "embedding",
               raised |-> FALSE]
    ELSE CacheGetEnabled(st, r, semantic, exact_first, threshold, prompt, model_id,
                         outcomes, faults)

\* CacheService.get
CacheGet(st, r, on, semantic, exact_first, threshold, prompt, model_id, outcomes, faults) ==
    IF ~on
    THEN [result |-> None, stats |-> st, exact_failed |-> "none",
          semantic_failed |-> "none", raised |-> FALSE]
    ELSE CacheGetEnabled(st, r, semantic, exact_first, threshold, prompt, model_id,
                         outcomes, faults)

\* the semantic half of CacheService.set (lines 225-251), on the store r1 the
\* exact write has produced: each write happens unless an earlier call raised
SetSemantic(r1, t, prompt, model_id, response, outcomes, faults) ==
    LET cache_id == CacheIdOf(prompt, model_id, response)
        embedding == generate_embedding(prompt, outcomes)
        r2 == Setex(r1, _generate_embedding_key(cache_id), EMBEDDING_CACHE_TTL,
                    JsonDumps(IF embedding = None THEN <<>> ELSE embedding.vec), t)
        r3 == Setex(r2, _generate_response_key(cache_id), CACHE_TTL_SECONDS,
                    JsonDumps(response), t)
        r4 == Lpush(r3, _generate_semantic_key(model_id), cache_id)
        r5 == Expire(r4, _generate_semantic_key(model_id), CACHE_TTL_SECONDS, t)
    IN IF embedding = None THEN [redis |-> r1, failed |-> "embedding"]
       ELSE IF "set_embedding" \in faults THEN [redis |-> r1, failed |-> "store"]
       ELSE IF "set_response" \in faults THEN [redis |-> r2, failed |-> "store"]
       ELSE IF "lpush" \in faults THEN [redis |-> r3, failed |-> "store"]
       ELSE IF "expire" \in faults THEN [redis |-> r4, failed |-> "store"]
       ELSE [redis |-> r5, failed |-> "none"]

\* a set that would write the exact entry last, after the semantic keys
CacheSetExactLast(r, t, on, semantic, prompt, model_id, response, outcomes, faults) ==
    LET exact_key == _generate_exact_cache_key(prompt, model_id)
        sem == SetSemantic(r, t, prompt, model_id, response, outcomes, faults)
        r0 == IF semantic THEN sem.redis ELSE r
        failed == IF semantic THEN sem.failed ELSE "none"
    IN IF ~on
       THEN [redis |-> r, failed |-> "none", exact_written |-> FALSE,
             semantic_written |-> FALSE, raised |-> FALSE]
       ELSE IF failed # "none"
            THEN [redis |-> r0, failed |-> failed, exact_written |-> FALSE,
                  semantic_written |-> FALSE, raised |-> FALSE]
       ELSE IF "set_exact" \in faults
            THEN [redis |-> r0, failed |-> "store", exact_written |-> FALSE,
                  semantic_written |-> semantic, raised |-> FALSE]
       ELSE [redis |-> Setex(r0, exact_key, CACHE_TTL_SECONDS, JsonDumps(response), t),
             failed |-> "none", exact_written |-> TRUE,
             semantic_written |-> semantic, raised |-> FALSE]

\* a set that would write the semantic keys whatever semantic_enabled is
CacheSetAlwaysSemantic(r, t, on, semantic, prompt, model_id, response, outcomes, faults) ==
    LET exact_key == _generate_exact_cache_key(prompt, model_id)
        r1 == Setex(r, exact_key, CACHE_TTL_SECONDS, JsonDumps(response), t)
        sem == SetSemantic(r1, t, prompt, model_id, response, outcomes, faults)
    IN IF ~on
       THEN [redis |-> r, failed |-> "none", exact_written |-> FALSE,
             semantic_written |-> FALSE, raised |-> FALSE]
       ELSE IF "set_exact" \in faults
            THEN [redis |-> r, failed |-> "store", exact_written |-> FALSE,
                  semantic_written |-> FALSE, raised |-> FALSE]
       ELSE [redis |-> sem.redis, failed |-> sem.failed, exact_written |-> TRUE,
             semantic_written |-> (sem.failed = "none"), raised |-> FALSE]

\* CacheService.set: the store after the call, the call that raised inside the
\* try block ("none", "embedding" or "store"), and whether the exact entry and
\* the whole semantic entry were written
CacheSet(r, t, on, semantic, prompt, model_id, response, outcomes, faults) ==
    LET exact_key == _generate_exact_cache_key(prompt, model_id)
        r1 == Setex(r, exact_key, CACHE_TTL_SECONDS, JsonDumps(response), t)
        sem == SetSemantic(r1, t, prompt, model_id, response, outcomes, faults)
    IN IF ~on
       THEN [redis |-> r, failed |-> "none", exact_written |-> FALSE,
             semantic_written |-> FALSE, raised |-> FALSE]
       ELSE IF "set_exact" \in faults
            THEN [redis |-> r, failed |-> "store", exact_written |-> FALSE,
                  semantic_written |-> FALSE, raised |-> Propagates("store")]
       ELSE IF semantic
            THEN [redis |-> sem.redis, failed |-> sem.failed, exact_written |-> TRUE,
                  semantic_written |-> (sem.failed = "none"),
                  raised |-> sem.failed # "none" /\ Propagates(sem.failed)]
       ELSE [redis |-> r1, failed |-> "none", exact_written |-> TRUE,
             semantic_written |-> FALSE, raised |-> FALSE]

\* a clear that would flush the store and keep the statistics
CacheClearStoreOnly(st, r, on, account_id, faults) ==
    IF ~on \/ "flushdb" \in faults THEN [redis |-> r, stats |-> st]
    ELSE [redis |-> EmptyStore, stats |-> st]

\* CacheService.clear: the store and the statistics after the call; account_id
\* is only logged
CacheClear(st, r, on, account_id, faults) ==
    IF ~on \/ "flushdb" \in faults THEN [redis |-> r, stats |-> st]
    ELSE [redis |-> EmptyStore, stats |-> ZeroStats]

(***************************************************************************)
(* The service as a state machine: each call of get, set and clear is one  *)
(* step, taken at the store's current time; Tick lets time pass.  A        *)
(* behaviour has at most one faulty call: fault names the call that raises *)
(* in this step ("embed": the provider fails every attempt), or is "none". *)
(***************************************************************************)
GetFaults == {"get_exact", "embed", "lrange", "get_embedding", "get_response"}

SetFaults == {"set_exact", "embed", "set_embedding", "set_response", "lpush", "expire"}

OutcomesUnder(fault) == IF fault = "embed" THEN ProviderDown ELSE ProviderUp

TickSteps == {1800, 3600}

NoOp == [op |-> "init"]

\* no call of get has begun
NoTasks == [i \in 1..MaxTasks |-> [pc |-> "idle"]]

Init ==
    /\ enabled \in BOOLEAN
    /\ semantic_enabled \in BOOLEAN
    /\ exact_match_first \in BOOLEAN
    /\ stats = ZeroStats
    /\ redis = EmptyStore
    /\ now = 0
    /\ last = NoOp
    /\ written = EmptyStore
    /\ done = 0
    /\ faulted = FALSE
    /\ vq = NoOp
    /\ tasks = NoTasks

\* a step may be faulty only if none was before
Budget(fault) ==
    /\ done < MaxOps
    /\ done' = done + 1
    /\ fault # "none" => ~faulted
    /\ faulted' = (faulted \/ fault # "none")

\* the keys of the semantic entry that a set has written when it returns out:
\* the embedding key unless the embedding or its write failed, and the
\* response key unless that write or an earlier step failed
SemanticKeysSet(out, fault, cache_id) ==
    IF ~semantic_enabled \/ ~out.exact_written \/ out.failed = "embedding"
       \/ fault = "set_embedding"
    THEN {}
    ELSE IF fault = "set_response"
         THEN {_generate_embedding_key(cache_id)}
    ELSE {_generate_embedding_key(cache_id), _generate_response_key(cache_id)}

\* the previous call, if it was a set, as a later get remembers it
JustStored ==
    IF last.op = "set"
    THEN [prompt |-> last.prompt, model_id |-> last.model_id,
          response |-> last.response, fault |-> last.fault, failed |-> last.failed,
          exact_written |-> last.exact_written,
          semantic_written |-> last.semantic_written, over |-> last.over]
    ELSE None

Get(prompt, model_id, fault) ==
    LET out == CacheGet(stats, redis, enabled, semantic_enabled, exact_match_first,
                        CACHE_SIMILARITY_THRESHOLD, prompt, model_id,
                        OutcomesUnder(fault), {fault})
    IN /\ Budget(fault)
       /\ stats' = out.stats
       /\ last' = [op |-> "get", prompt |-> prompt, model_id |-> model_id,
                   result |-> out.result, fault |-> fault,
                   exact_failed |-> out.exact_failed,
                   semantic_failed |-> out.semantic_failed, raised |-> out.raised,
                   before |-> stats, after |-> JustStored]
       /\ UNCHANGED <<enabled, semantic_enabled, exact_match_first, redis, now,
                      written, vq, tasks>>

Set(prompt, model_id, response, fault) ==
    LET out == CacheSet(redis, now, enabled, semantic_enabled, prompt, model_id,
                        response, OutcomesUnder(fault), {fault})
        exact_key == _generate_exact_cache_key(prompt, model_id)
    IN /\ Budget(fault)
       /\ redis' = out.redis
       /\ written' = LET exact == IF out.exact_written THEN {exact_key} ELSE {}
                          cache_id == CacheIdOf(prompt, model_id, response)
                          semantic == SemanticKeysSet(out, fault, cache_id)
                      IN  [k \in DOMAIN written \cup exact \cup semantic |->
                              IF k \in exact
                              THEN [val |-> JsonDumps(response), at |-> now,
                                    pair |-> <<prompt, model_id>>]
                              ELSE IF k \in semantic
                              THEN [val |-> out.redis[k].val, at |-> now,
                                    pair |-> <<prompt, model_id>>,
                                    cache_id |-> cache_id,
                                    full |-> out.semantic_written]
                              ELSE written[k]]
       /\ last' = [op |-> "set", prompt |-> prompt, model_id |-> model_id,
                   response |-> response, fault |-> fault, failed |-> out.failed,
                   raised |-> out.raised, exact_written |-> out.exact_written,
                   semantic_written |-> out.semantic_written,
                   replaced |-> RedisGet(redis, exact_key)
                                    \notin {None, JsonDumps(response)},
                   over |-> /\ last.op = "set"
                            /\ last.prompt = prompt /\ last.model_id = model_id
                            /\ enabled /\ last.fault = "none" /\ fault = "none"
                            /\ last.response.content # response.content]
       /\ UNCHANGED <<enabled, semantic_enabled, exact_match_first, stats, now, vq,
                      tasks>>

\* the account arguments of clear: none, or the caller's account
AccountIds == {None, [uuid |-> "acct"]}

Clear(account_id, fault) ==
    LET out == CacheClear(stats, redis, enabled, account_id, {fault})
    IN /\ Budget(fault)
       /\ redis' = out.redis
       /\ stats' = out.stats
       /\ written' = IF enabled /\ fault = "none" THEN EmptyStore ELSE written
       /\ last' = [op |-> "clear", fault |-> fault, account_id |-> account_id,
                   before |-> stats, held |-> redis # EmptyStore]
       /\ UNCHANGED <<enabled, semantic_enabled, exact_match_first, now, vq, tasks>>

Tick(d) ==
    /\ Budget("none")
    /\ now' = now + d
    /\ redis' = Purge(redis, now + d)
    /\ last' = [op |-> "tick"]
    /\ UNCHANGED <<enabled, semantic_enabled, exact_match_first, stats, written, vq,
                   tasks>>

Next ==
    \/ \E pm \in Pairs, f \in GetFaults \cup {"none"} : Get(pm[1], pm[2], f)
    \/ \E pm \in Pairs, f \in SetFaults \cup {"none"} :
           \E r \in Responses(pm[2]) : Set(pm[1], pm[2], r, f)
    \/ \E a \in AccountIds, f \in {"none", "flushdb"} : Clear(a, f)
    \/ \E d \in TickSteps : Tick(d)

Spec == Init /\ [][Next]_vars

(***************************************************************************)
(* The similarity engine on its own: a behaviour evaluates one search, and *)
(* vq records the scenario with what the search returned.  Scores are      *)
(* drawn around the threshold (0.949999, 0.95) and at the ends of the      *)
(* range; <<1,0,0,0,0>> and <<19,6,1,1,1>> have cosine 19/20 exactly.      *)
(***************************************************************************)
ScoreValues == {-600000, 0, 949999, 950000, 1000000}

Thresholds == {0, CACHE_SIMILARITY_THRESHOLD, 1000000}

VecUniverse ==
    {<<>>, <<3, 4>>, <<4, 3>>, <<0, 0>>, <<-3, -4>>, <<1, 0, 0, 0, 0>>,
     <<19, 6, 1, 1, 1>>}

\* the lists of at most n elements of S
ListsUpTo(S, n) == UNION {[1..k -> S] : k \in 0..n}

InitVec ==
    /\ enabled = TRUE
    /\ semantic_enabled = TRUE
    /\ exact_match_first = TRUE
    /\ stats = ZeroStats
    /\ redis = EmptyStore
    /\ now = 0
    /\ last = NoOp
    /\ written = EmptyStore
    /\ done = 0
    /\ faulted = FALSE
    /\ vq = NoOp
    /\ tasks = NoTasks

\* the selection of find_most_similar (lines 146-155) on given similarities
Select(similarities, threshold) ==
    /\ vq = NoOp
    /\ vq' = [op |-> "select", similarities |-> similarities,
              threshold |-> threshold,
              result |-> BestAbove(similarities, threshold)]
    /\ UNCHANGED <<enabled, semantic_enabled, exact_match_first, stats, redis, now,
                   last, written, done, faulted, tasks>>

\* a call of find_most_similar
Search(query_vec, vectors, threshold) ==
    /\ vq = NoOp
    /\ vq' = [op |-> "search", query_vec |-> query_vec, vectors |-> vectors,
              similarities |-> batch_cosine_similarity(query_vec, vectors),
              threshold |-> threshold,
              result |-> find_most_similar(query_vec, vectors, threshold)]
    /\ UNCHANGED <<enabled, semantic_enabled, exact_match_first, stats, redis, now,
                   last, written, done, faulted, tasks>>

\* a call of cosine_similarity
Cosine(vec1, vec2) ==
    /\ vq = NoOp
    /\ vq' = [op |-> "cosine", vec1 |-> vec1, vec2 |-> vec2,
              result |-> cosine_similarity(vec1, vec2)]
    /\ UNCHANGED <<enabled, semantic_enabled, exact_match_first, stats, redis, now,
                   last, written, done, faulted, tasks>>

\* the texts embedded: empty, whitespace-only and plain ones
Texts == {"", " ", " \t\n", "q", "x:q"}

\* what the provider may answer to each of the attempts
ProviderOutcomes == [1..RetryAttempts -> {"ok", "empty", "error"}]

\* a call of generate_embedding
Embed(text, outcomes) ==
    /\ vq = NoOp
    /\ vq' = [op |-> "embed", text |-> text, outcomes |-> outcomes,
              result |-> generate_embedding(text, outcomes)]
    /\ UNCHANGED <<enabled, semantic_enabled, exact_match_first, stats, redis, now,
                   last, written, done, faulted, tasks>>

\* the items of a batch: a text with the provider's answers for it
BatchItems ==
    {" ", "q", "x:q"}
        \X {<<"ok", "ok", "ok">>, <<"error", "ok", "ok">>, <<"empty", "ok", "ok">>,
            <<"error", "error", "error">>}

\* a call of generate_embeddings_batch
Batch(items) ==
    /\ vq = NoOp
    /\ vq' = [op |-> "batch", items |-> items,
              result |-> generate_embeddings_batch(items)]
    /\ UNCHANGED <<enabled, semantic_enabled, exact_match_first, stats, redis, now,
                   last, written, done, faulted, tasks>>

NextVec ==
    \/ \E sims \in ListsUpTo(ScoreValues, MaxCandidates), th \in Thresholds :
           Select(sims, th)
    \/ \E q \in VecUniverse, vs \in ListsUpTo(VecUniverse, MaxCandidates),
          th \in Thresholds : Search(q, vs, th)
    \/ \E a \in VecUniverse, b \in VecUniverse : Cosine(a, b)
    \/ \E text \in Texts, o \in ProviderOutcomes : Embed(text, o)
    \/ \E items \in ListsUpTo(BatchItems, MaxBatch) : Batch(items)

SpecVec == InitVec /\ [][NextVec]_vars

(***************************************************************************)
(* Concurrent calls of get.  The service runs on one asyncio event loop: a *)
(* coroutine runs without interruption from one await to the next, and the *)
(* statements between two awaits are one step.  get suspends at            *)
(* redis_client.get (exact path) and at redis_client.lrange (semantic      *)
(* path); generate_embedding is a synchronous call.  A task suspended at   *)
(* an await can be cancelled there: asyncio.CancelledError is not an       *)
(* Exception, so no "except Exception" clause of the service catches it.   *)
(* tasks[i].seen is the value of stats when task i was last suspended.     *)
(***************************************************************************)
\* an increment that would write back the value read before the task's await
CountUpStale(st, seen, counter) == [st EXCEPT ![counter] = seen[counter] + 1]

\* self.stats[counter] += 1 by a task that was last suspended when stats was
\* seen: a read and a write with no await between them
CountUp(st, seen, counter) == Bump(st, counter)

\* _try_semantic_match up to its first await, and what get does when it
\* returns before it: the task's next position and the statistics
EnterSemantic(st, seen, semantic, prompt, outcomes) ==
    IF ~semantic \/ generate_embedding(prompt, outcomes) = None
    THEN [pc |-> "done", stats |-> CountUp(st, seen, "misses")]
    ELSE [pc |-> "await_lrange", stats |-> st]

\* the pairs looked up concurrently: a plain and a whitespace-only prompt
ConcurrentPairs == {<<"q", "m">>, <<" ", "m">>}

InitConc ==
    /\ enabled = TRUE
    /\ semantic_enabled \in BOOLEAN
    /\ exact_match_first \in BOOLEAN
    /\ stats = ZeroStats
    /\ redis = EmptyStore
    /\ now = 0
    /\ last = NoOp
    /\ written = EmptyStore
    /\ done = 0
    /\ faulted = FALSE
    /\ vq = NoOp
    /\ tasks = NoTasks

\* task i calls get and runs to its first await (lines 178-185, 101-110)
Begin(i, prompt, model_id, outcomes) ==
    LET counted == CountUp(stats, stats, "total_requests")
        sem == EnterSemantic(counted, stats, semantic_enabled, prompt, outcomes)
        to == IF ~enabled THEN [pc |-> "done", stats |-> stats]
              ELSE IF exact_match_first THEN [pc |-> "await_get", stats |-> counted]
              ELSE sem
    IN /\ tasks[i].pc = "idle"
       /\ stats' = to.stats
       /\ tasks' = [tasks EXCEPT ![i] = [pc |-> to.pc, prompt |-> prompt,
                                         model_id |-> model_id, seen |-> to.stats]]
       /\ UNCHANGED <<enabled, semantic_enabled, exact_match_first, redis, now, last,
                      written, done, faulted, vq>>

\* redis_client.get of the exact key returns to task i, or raises (lines 83-93,
\* 186-190, 101-110)
ResumeGet(i, fault, outcomes) ==
    LET t == tasks[i]
        exact == _try_exact_match(redis, t.prompt, t.model_id, {fault})
        to == IF exact.hit
              THEN [pc |-> "done", stats |-> CountUp(stats, t.seen, "exact_hits")]
              ELSE EnterSemantic(stats, t.seen, semantic_enabled, t.prompt, outcomes)
    IN /\ t.pc = "await_get"
       /\ stats' = to.stats
       /\ tasks' = [tasks EXCEPT ![i].pc = to.pc, ![i].seen = to.stats]
       /\ UNCHANGED <<enabled, semantic_enabled, exact_match_first, redis, now, last,
                      written, done, faulted, vq>>

\* redis_client.lrange returns to task i, or raises (lines 110-163, 191-197);
\* with an empty candidate list the task reaches no further await
ResumeLrange(i, fault) ==
    LET t == tasks[i]
        sem == _try_semantic_match(redis, TRUE, CACHE_SIMILARITY_THRESHOLD, t.prompt,
                                   t.model_id, ProviderUp, {fault})
    IN /\ t.pc = "await_lrange"
       /\ stats' = CountUp(stats, t.seen,
                           IF sem.hit THEN "semantic_hits" ELSE "misses")
       /\ tasks' = [tasks EXCEPT ![i].pc = "done", ![i].seen = stats']
       /\ UNCHANGED <<enabled, semantic_enabled, exact_match_first, redis, now, last,
                      written, done, faulted, vq>>

\* the caller abandons task i at the await it is suspended at
Cancel(i) ==
    /\ tasks[i].pc \in {"await_get", "await_lrange"}
    /\ tasks' = [tasks EXCEPT ![i].pc = "cancelled"]
    /\ UNCHANGED <<enabled, semantic_enabled, exact_match_first, stats, redis, now,
                   last, written, done, faulted, vq>>

NextConc ==
    \/ \E i \in 1..MaxTasks, pm \in ConcurrentPairs, o \in {ProviderUp, ProviderDown} :
           Begin(i, pm[1], pm[2], o)
    \/ \E i \in 1..MaxTasks, f \in {"none", "get_exact"},
          o \in {ProviderUp, ProviderDown} : ResumeGet(i, f, o)
    \/ \E i \in 1..MaxTasks, f \in {"none", "lrange"} : ResumeLrange(i, f)
    \/ \E i \in 1..MaxTasks : Cancel(i)

SpecConc == InitConc /\ [][NextConc]_vars

(***************************************************************************)
(* Cost calculator (src/app/services/cost_calculator.py) over the pricing  *)
(* table (src/app/models/pricing.py).  A price per 1K tokens is an integer *)
(* number of 10^-5 dollars and a regional multiplier an integer number of  *)
(* hundredths, so tokens * price * multiplier is the exact cost in units   *)
(* of 10^-10 dollars; a rounded cost is an integer number of 10^-6         *)
(* dollars.  round(x, 6) returns the multiple of 10^-6 nearest to x; for   *)
(* an x half way between two of them the binary value that the float       *)
(* arithmetic produced decides the direction, which the model takes as an  *)
(* input of the call (up).  The integers do not tell -0.0 from 0.0, which  *)
(* compare equal; the timestamp of a breakdown is left out.                *)
(***************************************************************************)
MicroDollar == 10000    \* 10^-6 dollars in units of 10^-10 dollars

Price(input, output) == [input_per_1k |-> input, output_per_1k |-> output]

BEDROCK_PRICING ==
    ("anthropic.claude-3-5-sonnet-20241022-v2:0" :> Price(300, 1500))
    @@ ("anthropic.claude-3-5-haiku-20241022-v1:0" :> Price(100, 500))
    @@ ("anthropic.claude-3-opus-20240229-v1:0" :> Price(1500, 7500))
    @@ ("meta.llama3-70b-instruct-v1:0" :> Price(265, 350))
    @@ ("meta.llama3-8b-instruct-v1:0" :> Price(30, 60))
    @@ ("amazon.titan-text-express-v1" :> Price(20, 60))
    @@ ("amazon.titan-text-lite-v1" :> Price(15, 20))
    @@ ("mistral.mistral-7b-instruct-v0:2" :> Price(15, 20))
    @@ ("mistral.mixtral-8x7b-instruct-v0:1" :> Price(45, 70))
    @@ ("amazon.titan-embed-text-v1" :> Price(10, 0))

REGIONAL_MULTIPLIERS ==
    ("us-east-1" :> 100) @@ ("us-west-2" :> 100)
    @@ ("eu-west-1" :> 110) @@ ("eu-central-1" :> 110)
    @@ ("ap-northeast-1" :> 115) @@ ("ap-southeast-1" :> 115)

DEFAULT_PRICING_MODEL == "anthropic.claude-3-5-sonnet-20241022-v2:0"
EMBEDDING_PRICING_MODEL == "amazon.titan-embed-text-v1"

\* the ModelPricing of a model in a region, None for a model not in the table
get_model_pricing(model_id, region) ==
    IF model_id \notin DOMAIN BEDROCK_PRICING
    THEN None
    ELSE LET base_pricing == BEDROCK_PRICING[model_id]
             multiplier == IF region \in DOMAIN REGIONAL_MULTIPLIERS
                           THEN REGIONAL_MULTIPLIERS[region]
                           ELSE 100
         IN  [model_id |-> model_id,
              input_per_1k |-> base_pricing.input_per_1k * multiplier,
              output_per_1k |-> base_pricing.output_per_1k * multiplier,
              region |-> region]

Round6Truncating(x, up) == x \div MicroDollar

\* round(x, 6): x in units of 10^-10 dollars, the result in 10^-6 dollars
Round6(x, up) ==
    LET q == x \div MicroDollar
        r == x % MicroDollar
    IN  IF 2 * r > MicroDollar \/ (2 * r = MicroDollar /\ up) THEN q + 1 ELSE q

\* a calculation that would report as total the sum of the two rounded costs
calculate_cost_summing_rounded(model_id, input_tokens, output_tokens, region, up) ==
    LET found == get_model_pricing(model_id, region)
        pricing == IF found = None
                   THEN get_model_pricing(DEFAULT_PRICING_MODEL, region)
                   ELSE found
    IN  IF pricing = None
        THEN [error |-> "AttributeError"]
        ELSE LET input_cost == Round6(input_tokens * pricing.input_per_1k, up[1])
                 output_cost == Round6(output_tokens * pricing.output_per_1k, up[2])
             IN  [input_cost |-> input_cost,
                  output_cost |-> output_cost,
                  total_cost |-> input_cost + output_cost,
                  model_id |-> model_id, input_tokens |-> input_tokens,
                  output_tokens |-> output_tokens, region |-> region]

calculate_cost_no_fallback(model_id, input_tokens, output_tokens, region, up) ==
    LET pricing == get_model_pricing(model_id, region)
    IN  IF pricing = None
        THEN [error |-> "AttributeError"]
        ELSE [input_cost |-> Round6(input_tokens * pricing.input_per_1k, up[1]),
              output_cost |-> Round6(output_tokens * pricing.output_per_1k, up[2]),
              total_cost |-> Round6(input_tokens * pricing.input_per_1k
                                    + output_tokens * pricing.output_per_1k, up[3]),
              model_id |-> model_id, input_tokens |-> input_tokens,
              output_tokens |-> output_tokens, region |-> region]

\* CostCalculator.calculate_cost: the CostBreakdown, or the error raised.
\* up[1], up[2], up[3] direct the three roundings.
calculate_cost(model_id, input_tokens, output_tokens, region, up) ==
    LET found == get_model_pricing(model_id, region)
        pricing == IF found = None
                   THEN get_model_pricing(DEFAULT_PRICING_MODEL, region)
                   ELSE found
    IN  IF pricing = None
        THEN [error |-> "AttributeError"]
        ELSE LET input_cost == input_tokens * pricing.input_per_1k
                 output_cost == output_tokens * pricing.output_per_1k
                 total_cost == input_cost + output_cost
             IN  [input_cost |-> Round6(input_cost, up[1]),
                  output_cost |-> Round6(output_cost, up[2]),
                  total_cost |-> Round6(total_cost, up[3]),
                  model_id |-> model_id, input_tokens |-> input_tokens,
                  output_tokens |-> output_tokens, region |-> region]

calculate_cache_savings_clamped(model_id, input_tokens, output_tokens, region, include_embedding_cost, up) ==
    LET bedrock_cost == calculate_cost(model_id, input_tokens, output_tokens,
                                       region, up)
        embedding_pricing == get_model_pricing(EMBEDDING_PRICING_MODEL, region)
        embedding_cost == IF include_embedding_cost /\ embedding_pricing # None
                          THEN input_tokens * embedding_pricing.input_per_1k
                          ELSE 0
        net_savings == bedrock_cost.total_cost * MicroDollar - embedding_cost
    IN  IF "error" \in DOMAIN bedrock_cost
        THEN bedrock_cost
        ELSE [requests_saved |-> 1,
              cost_saved |-> bedrock_cost.total_cost,
              tokens_saved |-> input_tokens + output_tokens,
              embedding_cost |-> Round6(embedding_cost, up[4]),
              net_savings |-> IF net_savings < 0 THEN 0
                              ELSE Round6(net_savings, up[5])]

\* CostCalculator.calculate_cache_savings: the CostSavings, or the error
\* raised.  up[4], up[5] direct the roundings of embedding_cost and
\* net_savings.
calculate_cache_savings(model_id, input_tokens, output_tokens, region, include_embedding_cost, up) ==
    LET bedrock_cost == calculate_cost(model_id, input_tokens, output_tokens,
                                       region, up)
        embedding_pricing == get_model_pricing(EMBEDDING_PRICING_MODEL, region)
        embedding_cost == IF include_embedding_cost /\ embedding_pricing # None
                          THEN input_tokens * embedding_pricing.input_per_1k
                          ELSE 0
        net_savings == bedrock_cost.total_cost * MicroDollar - embedding_cost
    IN  IF "error" \in DOMAIN bedrock_cost
        THEN bedrock_cost
        ELSE [requests_saved |-> 1,
              cost_saved |-> bedrock_cost.total_cost,
              tokens_saved |-> input_tokens + output_tokens,
              embedding_cost |-> Round6(embedding_cost, up[4]),
              net_savings |-> Round6(net_savings, up[5])]

(***************************************************************************)
(* The cost calculator on its own: a behaviour evaluates one call, and vq  *)
(* records its arguments with what it returned.  The token counts hold the *)
(* scenario's 1000, prompts of a few tokens, and 1405, whose cost at the   *)
(* embedding price (0.0001405) is half way between two rounded values.     *)
(***************************************************************************)
ModelIds == DOMAIN BEDROCK_PRICING \cup {"unknown.model-v1:0", ""}
Regions == {"us-east-1", "eu-west-1", "ap-northeast-1", "xx-nowhere-1"}
InputTokens == {0, 1, 3, 5, 1000, 1405}
OutputTokens == {0, 1, 1000}
Directions(n) == [1..n -> BOOLEAN]

Cost(model_id, input_tokens, output_tokens, region, up) ==
    /\ vq = NoOp
    /\ vq' = [op |-> "cost", model_id |-> model_id,
              input_tokens |-> input_tokens, output_tokens |-> output_tokens,
              region |-> region, up |-> up,
              result |-> calculate_cost(model_id, input_tokens, output_tokens,
                                        region, up)]
    /\ UNCHANGED <<enabled, semantic_enabled, exact_match_first, stats, redis, now,
                   last, written, done, faulted, tasks>>

Savings(model_id, input_tokens, output_tokens, region, include_embedding_cost, up) ==
    /\ vq = NoOp
    /\ vq' = [op |-> "savings", model_id |-> model_id,
              input_tokens |-> input_tokens, output_tokens |-> output_tokens,
              region |-> region, include_embedding_cost |-> include_embedding_cost,
              up |-> up,
              result |-> calculate_cache_savings(model_id, input_tokens,
                             output_tokens, region, include_embedding_cost, up)]
    /\ UNCHANGED <<enabled, semantic_enabled, exact_match_first, stats, redis, now,
                   last, written, done, faulted, tasks>>

NextCost ==
    \/ /\ vq = NoOp
       /\ \E m \in ModelIds, i \in InputTokens, o \in OutputTokens, r \in Regions,
             up \in Directions(3) : Cost(m, i, o, r, up)
    \/ /\ vq = NoOp
       /\ \E m \in ModelIds, i \in InputTokens, o \in OutputTokens, r \in Regions,
             e \in BOOLEAN, up \in Directions(5) : Savings(m, i, o, r, e, up)

SpecCost == InitVec /\ [][NextCost]_vars


(***************************************************************************)
(* CacheService.get_stats.  hit_rate and cost_saved and net_savings are    *)
(* integer numbers of 10^-4, embedding_cost of 10^-6 dollars.  As in the   *)
(* cost calculator, round(x, 4) of a quotient half way between two values  *)
(* of 4 digits goes where the float lies, an input (up) of the call.       *)
(***************************************************************************)
TenThousandths == 10000     \* 1.0 in units of 10^-4

\* round(total_hits / total, 4), total > 0
Round4Ratio(total_hits, total, up) ==
    LET n == total_hits * TenThousandths
        q == n \div total
        r == n % total
    IN  IF 2 * r > total \/ (2 * r = total /\ up) THEN q + 1 ELSE q

get_stats_exact_only(st, semantic, threshold, account_id, up) ==
    LET total == st.total_requests
        total_hits == st.exact_hits + st.semantic_hits
    IN  [hit_rate |-> IF total > 0 THEN Round4Ratio(st.exact_hits, total, up) ELSE 0,
         total_requests |-> total,
         exact_hits |-> st.exact_hits,
         semantic_hits |-> st.semantic_hits,
         total_hits |-> total_hits,
         misses |-> st.misses,
         cache_size_mb |-> 0,
         requests_saved |-> total_hits,
         cost_saved |-> total_hits * 50,
         embedding_cost |-> IF semantic THEN st.semantic_hits * 20 ELSE 0,
         net_savings |-> (total_hits * 5000
                          - (IF semantic THEN st.semantic_hits * 20 ELSE 0) + 50)
                             \div 100,
         tokens_saved |-> 0,
         semantic_enabled |-> semantic,
         similarity_threshold |-> threshold]

\* CacheService.get_stats on the counters st: the dict returned.  The
\* account_id is not used; cost_saved is total_hits * 0.005, embedding_cost
\* semantic_hits * 200 / 1000 * 0.0001 (a multiple of 0.00002, so that
\* net_savings is never half way between two values of 4 digits).
get_stats(st, semantic, threshold, account_id, up) ==
    LET total == st.total_requests
        exact_hits == st.exact_hits
        semantic_hits == st.semantic_hits
        total_hits == exact_hits + semantic_hits
        hit_rate == IF total > 0 THEN Round4Ratio(total_hits, total, up) ELSE 0
        cost_saved == total_hits * 5000
        embedding_cost == IF semantic THEN semantic_hits * 20 ELSE 0
        net_savings == cost_saved - embedding_cost
    IN  [hit_rate |-> hit_rate,
         total_requests |-> total,
         exact_hits |-> exact_hits,
         semantic_hits |-> semantic_hits,
         total_hits |-> total_hits,
         misses |-> st.misses,
         cache_size_mb |-> 0,
         requests_saved |-> total_hits,
         cost_saved |-> cost_saved \div 100,
         embedding_cost |-> embedding_cost,
         net_savings |-> (net_savings + 50) \div 100,
         tokens_saved |-> 0,
         semantic_enabled |-> semantic,
         similarity_threshold |-> threshold]

(***************************************************************************)
(* get_stats on its own: the service has counted some lookups (each        *)
(* counted in total_requests and, unless it was cancelled, as one of exact *)
(* hit, semantic hit and miss), and a behaviour asks for the statistics    *)
(* once.                                                                   *)
(***************************************************************************)
MaxUncounted == 1
CountedStats ==
    { [exact_hits |-> e, semantic_hits |-> s, misses |-> m,
       total_requests |-> e + s + m + u] :
          e \in {0, 1, 30}, s \in {0, 1, 10}, m \in {0, 2, 60},
          u \in 0..MaxUncounted }

InitStats ==
    /\ enabled = TRUE
    /\ semantic_enabled \in BOOLEAN
    /\ exact_match_first = TRUE
    /\ stats \in CountedStats
    /\ redis = EmptyStore
    /\ now = 0
    /\ last = NoOp
    /\ written = EmptyStore
    /\ done = 0
    /\ faulted = FALSE
    /\ vq = NoOp
    /\ tasks = NoTasks

GetStats(account_id, up) ==
    /\ vq = NoOp
    /\ vq' = [op |-> "stats", account_id |-> account_id, up |-> up,
              result |-> get_stats(stats, semantic_enabled,
                                   CACHE_SIMILARITY_THRESHOLD, account_id, up)]
    /\ UNCHANGED <<enabled, semantic_enabled, exact_match_first, stats, redis, now,
                   last, written, done, faulted, tasks>>

NextStats == \E account_id \in AccountIds, up \in BOOLEAN : GetStats(account_id, up)

SpecStats == InitStats /\ [][NextStats]_vars


(***************************************************************************)
(* The gateway handler invoke_model (src/app/api/v1/endpoints/bedrock.py). *)
(* A request names a model ("auto" leaves the choice to select_model) and  *)
(* carries one message, the prompt; live is what the inference provider    *)
(* answers if it is called: a content, or "error" when the call raises.    *)
(* The handler answers 200 with an InvokeResponse or, from its except      *)
(* clause, 500.  Metrics are not modelled: they do not touch the cache.    *)
(***************************************************************************)
calculate_unpriced_raises(model_id, input_tokens, output_tokens, region, up) ==
    LET breakdown == calculate_cost_no_fallback(model_id, input_tokens,
                                                output_tokens, region, up)
    IN  IF "error" \in DOMAIN breakdown THEN breakdown
        ELSE [input |-> breakdown.input_cost, output |-> breakdown.output_cost,
              total |-> breakdown.total_cost]

\* CostCalculator.calculate: the dict of the three costs, or the error raised
calculate(model_id, input_tokens, output_tokens, region, up) ==
    LET breakdown == calculate_cost(model_id, input_tokens, output_tokens,
                                    region, up)
    IN  IF "error" \in DOMAIN breakdown THEN breakdown
        ELSE [input |-> breakdown.input_cost, output |-> breakdown.output_cost,
              total |-> breakdown.total_cost]

\* BedrockService.select_model
select_model(model) ==
    IF model # "auto" THEN model ELSE "anthropic.claude-3-5-sonnet-20241022-v2:0"

\* the costs of the handler's token counts are never half way between two
\* rounded values, so the direction of such a rounding plays no part
NoTies == [k \in 1..3 |-> FALSE]

\* invoke_model from line 62 on: the answer, and the statistics and the store
\* the two cache calls leave
invoke_model_reply(got, put, invoked, stored, response_data, cost_breakdown) ==
    LET failed == \/ got.raised
                  \/ invoked /\ response_data.content = "error"
                  \/ put.raised
                  \/ "error" \in DOMAIN cost_breakdown
    IN  [stats |-> got.stats, redis |-> put.redis,
         invoked |-> invoked, stored |-> stored,
         response |-> IF failed
                      THEN [status |-> 500]
                      ELSE [status |-> 200,
                            model_used |-> response_data.model_id,
                            content |-> response_data.content,
                            usage |-> response_data.usage,
                            cost |-> cost_breakdown,
                            cache_hit |-> got.result # None]]

invoke_model_cost(got, put, invoked, stored, response_data) ==
    invoke_model_reply(got, put, invoked, stored, response_data,
                       calculate(response_data.model_id,
                                 response_data.usage.input_tokens,
                                 response_data.usage.output_tokens,
                                 "us-east-1", NoTies))

invoke_model_store(got, r, t, on, semantic, prompt, invoked, stored, bedrock_response, fault) ==
    invoke_model_cost(got,
                      IF stored
                      THEN CacheSet(r, t, on, semantic, prompt,
                                    bedrock_response.model_id, bedrock_response,
                                    OutcomesUnder(fault), {fault})
                      ELSE [redis |-> r, raised |-> FALSE],
                      invoked, stored,
                      IF got.result # None THEN got.result ELSE bedrock_response)

\* a handler that would write back whenever caching is on, whatever the lookup
\* and the invocation gave
invoke_model_live_always_stores(got, r, t, on, semantic, model, prompt, use_cache, live, fault) ==
    invoke_model_store(got, r, t, on, semantic, prompt,
                       ~got.raised /\ got.result = None,
                       use_cache,
                       [model_id |-> select_model(model), content |-> live,
                        usage |-> Usage(live)],
                       fault)

invoke_model_live(got, r, t, on, semantic, model, prompt, use_cache, live, fault) ==
    invoke_model_store(got, r, t, on, semantic, prompt,
                       ~got.raised /\ got.result = None,
                       ~got.raised /\ got.result = None /\ live # "error" /\ use_cache,
                       [model_id |-> select_model(model), content |-> live,
                        usage |-> Usage(live)],
                       fault)

invoke_model(st, r, t, on, semantic, exact_first, model, prompt, x_enable_cache, live, fault) ==
    invoke_model_live(IF x_enable_cache /\ on
                      THEN CacheGet(st, r, on, semantic, exact_first,
                                    CACHE_SIMILARITY_THRESHOLD, prompt, model,
                                    OutcomesUnder(fault), {fault})
                      ELSE [result |-> None, stats |-> st, raised |-> FALSE],
                      r, t, on, semantic, model, prompt, x_enable_cache /\ on,
                      live, fault)

(***************************************************************************)
(* The gateway as a state machine: requests are handled one at a time, and *)
(* Tick lets time pass between them.  As before, at most one request of a  *)
(* behaviour meets a fault: the call named raises in that request          *)
(* ("embed": the embedding provider is down for the whole request).        *)
(***************************************************************************)
GatewayModels == {"m", "amazon.titan-text-lite-v1", "auto"}
GatewayPrompts == {"q"}
LiveAnswers == {"a", "b", "error"}
GatewayFaults == GetFaults \cup SetFaults \cup {"none"}

Invoke(model, prompt, x_enable_cache, live, fault) ==
    LET out == invoke_model(stats, redis, now, enabled, semantic_enabled,
                            exact_match_first, model, prompt, x_enable_cache,
                            live, fault)
    IN /\ Budget(fault)
       /\ stats' = out.stats
       /\ redis' = out.redis
       /\ last' = [op |-> "invoke", model |-> model, prompt |-> prompt,
                   x_enable_cache |-> x_enable_cache, live |-> live,
                   fault |-> fault, invoked |-> out.invoked,
                   stored |-> out.stored, response |-> out.response]
       /\ UNCHANGED <<enabled, semantic_enabled, exact_match_first, now, written,
                      vq, tasks>>

NextGateway ==
    \/ \E model \in GatewayModels, prompt \in GatewayPrompts,
          x_enable_cache \in BOOLEAN, live \in LiveAnswers,
          fault \in GatewayFaults :
           Invoke(model, prompt, x_enable_cache, live, fault)
    \/ \E d \in TickSteps : Tick(d)

SpecGateway == Init /\ [][NextGateway]_vars


(***************************************************************************)
(* CacheService.set call by call.  Each call of the store is awaited, so   *)
(* the calls of concurrent stores and lookups interleave; what a coroutine *)
(* does between two awaits is one step.  A store in flight is a task with  *)
(* the index (next) of the call of StoreOrder it is suspended at; written  *)
(* records every string key a store has set.  At most one call of a        *)
(* behaviour fails ("embed": the provider fails the store's embedding).    *)
(***************************************************************************)
MaxStores == 2

\* a store that would push the cache_id before it writes the response
StoreOrderPushFirst == <<"set_exact", "set_embedding", "lpush", "set_response", "expire">>

\* the calls of the store a set with semantic caching awaits, in order
StoreOrder == <<"set_exact", "set_embedding", "set_response", "lpush", "expire">>

\* the string key a call of the store sets, None for a call on the list
KeyOfCall(call, prompt, model_id, response) ==
    IF call = "set_exact" THEN [key |-> _generate_exact_cache_key(prompt, model_id)]
    ELSE IF call = "set_embedding"
         THEN [key |-> _generate_embedding_key(CacheIdOf(prompt, model_id, response))]
    ELSE IF call = "set_response"
         THEN [key |-> _generate_response_key(CacheIdOf(prompt, model_id, response))]
    ELSE None

\* the store after one call of set has been served at time t
StoreCall(r, t, call, prompt, model_id, response) ==
    LET cache_id == CacheIdOf(prompt, model_id, response)
        semantic_key == _generate_semantic_key(model_id)
    IN  IF call = "set_exact"
        THEN Setex(r, _generate_exact_cache_key(prompt, model_id), CACHE_TTL_SECONDS,
                   JsonDumps(response), t)
        ELSE IF call = "set_embedding"
        THEN Setex(r, _generate_embedding_key(cache_id), EMBEDDING_CACHE_TTL,
                   JsonDumps(generate_embedding(prompt, ProviderUp).vec), t)
        ELSE IF call = "set_response"
        THEN Setex(r, _generate_response_key(cache_id), CACHE_TTL_SECONDS,
                   JsonDumps(response), t)
        ELSE IF call = "lpush" THEN Lpush(r, semantic_key, cache_id)
        ELSE Expire(r, semantic_key, CACHE_TTL_SECONDS, t)

StorePairs == {<<"q", "m">>, <<"x:q", "m">>, <<"q", "m:x">>}

InitStore ==
    /\ enabled = TRUE
    /\ semantic_enabled = TRUE
    /\ exact_match_first = TRUE
    /\ stats = ZeroStats
    /\ redis = EmptyStore
    /\ now = 0
    /\ last = NoOp
    /\ written = EmptyStore
    /\ done = 0
    /\ faulted = FALSE
    /\ vq = NoOp
    /\ tasks = NoTasks

\* task i calls set and runs to its first await (lines 210-217)
StoreBegin(i, prompt, model_id, response) ==
    /\ tasks[i].pc = "idle"
    /\ tasks' = [tasks EXCEPT ![i] = [pc |-> "store", next |-> 1, prompt |-> prompt,
                                      model_id |-> model_id, response |-> response]]
    /\ UNCHANGED <<enabled, semantic_enabled, exact_match_first, stats, redis, now,
                   last, written, done, faulted, vq>>

\* the call task i awaits is served, or raises; the task runs to its next
\* await, or to the end of set (lines 216-266)
StoreStep(i, fault) ==
    LET t == tasks[i]
        call == StoreOrder[t.next]
        key == KeyOfCall(call, t.prompt, t.model_id, t.response)
        fails == fault = call \/ (fault = "embed" /\ call = "set_embedding")
        after == StoreCall(redis, now, call, t.prompt, t.model_id, t.response)
    IN /\ t.pc = "store"
       /\ fault # "none" => ~faulted /\ (fault = call \/ fault = "embed")
       /\ fault = "embed" => call = "set_embedding"
       /\ faulted' = (faulted \/ fault # "none")
       /\ redis' = IF fails THEN redis ELSE after
       /\ written' = IF fails \/ key = None THEN written
                     ELSE [k \in DOMAIN written \cup {key.key} |->
                              IF k = key.key
                              THEN [val |-> after[k].val, at |-> now,
                                    pair |-> <<t.prompt, t.model_id>>]
                              ELSE written[k]]
       /\ tasks' = [tasks EXCEPT ![i] =
                       IF fails THEN [pc |-> "failed"]
                       ELSE IF t.next = Len(StoreOrder) THEN [pc |-> "done"]
                       ELSE [t EXCEPT !.next = @ + 1]]
       /\ last' = [op |-> "store_step", call |-> call, fault |-> fault]
       /\ UNCHANGED <<enabled, semantic_enabled, exact_match_first, stats, now, done,
                      vq>>

\* a lookup's lrange of the candidate list of a model is served (line 106)
ReadCandidates(model_id) ==
    /\ last' = [op |-> "lrange", model_id |-> model_id,
                cache_ids |-> Lrange(redis, _generate_semantic_key(model_id))]
    /\ UNCHANGED <<enabled, semantic_enabled, exact_match_first, stats, redis, now,
                   written, done, faulted, vq, tasks>>

NextStore ==
    \/ \E i \in 1..MaxStores, pm \in StorePairs :
           \E r \in Responses(pm[2]) : StoreBegin(i, pm[1], pm[2], r)
    \/ \E i \in 1..MaxStores, f \in SetFaults \cup {"none"} : StoreStep(i, f)
    \/ \E pm \in StorePairs : ReadCandidates(pm[2])

SpecStore == InitStore /\ [][NextStore]_vars


(***************************************************************************)
(* Lookups in a service that has been running for a day.  The store is the *)
(* one AgedStores past sets have left: each was made at the start or in    *)
(* the last half hour of the day, and completed or failed at lpush or at   *)
(* expire (a list whose expire calls all failed has no expiry).  By now    *)
(* the embeddings written at the start have expired.                       *)
(***************************************************************************)
AgedStores == 3
AgedNow == EMBEDDING_CACHE_TTL
AgedTimes == {0, EMBEDDING_CACHE_TTL - 1800}
AgedPairs == {<<"q", "m">>, <<"x:q", "m">>}
AgedSets ==
    [pair : AgedPairs, content : {"a"}, at : AgedTimes,
     fault : {"none", "lpush", "expire"}]

\* the store after the sets of a history, made in turn
RECURSIVE Replay(_)
Replay(history) ==
    IF history = <<>> THEN EmptyStore
    ELSE LET op == history[Len(history)]
             before == Purge(Replay(SubSeq(history, 1, Len(history) - 1)), op.at)
         IN  CacheSet(before, op.at, TRUE, TRUE, op.pair[1], op.pair[2],
                      [model_id |-> op.pair[2], content |-> op.content,
                       usage |-> Usage(op.content)],
                      ProviderUp, {op.fault}).redis

AgedHistories ==
    {h \in [1..AgedStores -> AgedSets] :
        \A i \in 1..(AgedStores - 1) : h[i].at <= h[i + 1].at}

InitAged ==
    /\ enabled = TRUE
    /\ semantic_enabled = TRUE
    /\ exact_match_first \in BOOLEAN
    /\ stats = ZeroStats
    /\ redis \in {Purge(Replay(h), AgedNow) : h \in AgedHistories}
    /\ now = AgedNow
    /\ last = NoOp
    /\ written = EmptyStore
    /\ done = 0
    /\ faulted = FALSE
    /\ vq = NoOp
    /\ tasks = NoTasks

NextAged == \E pm \in AgedPairs, f \in GetFaults \cup {"none"} : Get(pm[1], pm[2], f)

SpecAged == InitAged /\ [][NextAged]_vars


(***************************************************************************)
(* Lookups one response lifetime after the first store.  The store is the  *)
(* one AgedStores past sets have left, each made at the start or in the    *)
(* middle of the hour: by now the responses and exact entries written at   *)
(* the start have expired, their embeddings have not, and a later set has  *)
(* kept the candidate list alive.                                          *)
(***************************************************************************)
StaleNow == CACHE_TTL_SECONDS
StaleTimes == {0, CACHE_TTL_SECONDS - 1800}
StaleHistories ==
    {h \in [1..AgedStores -> [pair : AgedPairs, content : {"a", "b"}, at : StaleTimes,
                              fault : {"none", "expire"}]] :
        \A i \in 1..(AgedStores - 1) : h[i].at <= h[i + 1].at}

InitStale ==
    /\ enabled = TRUE
    /\ semantic_enabled = TRUE
    /\ exact_match_first \in BOOLEAN
    /\ stats = ZeroStats
    /\ redis \in {Purge(Replay(h), StaleNow) : h \in StaleHistories}
    /\ now = StaleNow
    /\ last = NoOp
    /\ written = EmptyStore
    /\ done = 0
    /\ faulted = FALSE
    /\ vq = NoOp
    /\ tasks = NoTasks

NextStale == \E pm \in AgedPairs, f \in GetFaults \cup {"none"} : Get(pm[1], pm[2], f)

SpecStale == InitStale /\ [][NextStale]_vars


(***************************************************************************)
(* Lookups that run while the cache is cleared.  get and clear are         *)
(* coroutines of one event loop and each suspends at its store command:    *)
(* get after it has counted the request (line 181), at the read of the     *)
(* exact key (line 83); clear at flushdb (line 323), before it resets the  *)
(* statistics (line 326).  The store executes a command at some moment     *)
(* between the call and the coroutine's resumption.  Semantic caching is   *)
(* off, so a lookup has this one await, and so has a set: the write of the *)
(* exact entry (line 218).  The store starts with the exact entry of       *)
(* ("q", "m"); MaxCalls calls are begun in one behaviour.                  *)
(***************************************************************************)
MaxCalls == 5

InitRace ==
    /\ enabled = TRUE
    /\ semantic_enabled = FALSE
    /\ exact_match_first = TRUE
    /\ stats = ZeroStats
    /\ redis = CacheSet(EmptyStore, 0, TRUE, FALSE, "q", "m",
                        [model_id |-> "m", content |-> "a", usage |-> Usage("a")],
                        ProviderUp, {}).redis
    /\ now = 0
    /\ last = NoOp
    /\ written = EmptyStore
    /\ done = 0
    /\ faulted = FALSE
    /\ vq = NoOp
    /\ tasks = NoTasks

\* task i is free to run a call
Free(i) == tasks[i].pc \in {"idle", "done"} /\ done < MaxCalls

\* task i calls get: it counts the request and sends the read of the exact key
\* (lines 178-185, 80-83)
BeginGet(i, prompt, model_id) ==
    /\ Free(i)
    /\ done' = done + 1
    /\ stats' = CountUp(stats, stats, "total_requests")
    /\ tasks' = [tasks EXCEPT ![i] = [pc |-> "await_get", prompt |-> prompt,
                                      model_id |-> model_id]]
    /\ UNCHANGED <<enabled, semantic_enabled, exact_match_first, redis, now, last,
                   written, faulted, vq>>

\* the store executes the read of task i: the reply is what the key holds now
ServeGet(i) ==
    /\ tasks[i].pc = "await_get"
    /\ tasks' = [tasks EXCEPT ![i] =
                    [pc |-> "got", prompt |-> tasks[i].prompt,
                     model_id |-> tasks[i].model_id,
                     reply |-> _try_exact_match(redis, tasks[i].prompt,
                                                tasks[i].model_id, {})]]
    /\ UNCHANGED <<enabled, semantic_enabled, exact_match_first, stats, redis, now,
                   last, written, done, faulted, vq>>

\* task i resumes with the reply: an exact hit is counted and returned (lines
\* 84-89, 186-187), otherwise the semantic path returns at once and a miss is
\* counted (lines 101-102, 195)
ResumeGot(i) ==
    /\ tasks[i].pc = "got"
    /\ stats' = CountUp(stats, stats,
                        IF tasks[i].reply.hit THEN "exact_hits" ELSE "misses")
    /\ tasks' = [tasks EXCEPT ![i] = [pc |-> "done"]]
    /\ last' = [op |-> "get", prompt |-> tasks[i].prompt,
                model_id |-> tasks[i].model_id, result |-> tasks[i].reply.result]
    /\ UNCHANGED <<enabled, semantic_enabled, exact_match_first, redis, now,
                   written, done, faulted, vq>>

\* task i calls set and sends the write of the exact entry (lines 212-222)
BeginSet(i, prompt, model_id, response) ==
    /\ Free(i)
    /\ done' = done + 1
    /\ tasks' = [tasks EXCEPT ![i] = [pc |-> "await_setex", prompt |-> prompt,
                                      model_id |-> model_id, response |-> response]]
    /\ UNCHANGED <<enabled, semantic_enabled, exact_match_first, stats, redis, now,
                   last, written, faulted, vq>>

\* the store executes the write of task i
ServeSetex(i) ==
    /\ tasks[i].pc = "await_setex"
    /\ redis' = CacheSet(redis, now, enabled, semantic_enabled, tasks[i].prompt,
                         tasks[i].model_id, tasks[i].response, ProviderUp, {}).redis
    /\ tasks' = [tasks EXCEPT ![i] = [pc |-> "set"]]
    /\ UNCHANGED <<enabled, semantic_enabled, exact_match_first, stats, now, last,
                   written, done, faulted, vq>>

\* task i resumes after the write and returns (lines 225, 255-261)
ResumeSet(i) ==
    /\ tasks[i].pc = "set"
    /\ tasks' = [tasks EXCEPT ![i] = [pc |-> "done"]]
    /\ last' = [op |-> "set"]
    /\ UNCHANGED <<enabled, semantic_enabled, exact_match_first, stats, redis, now,
                   written, done, faulted, vq>>

\* task i calls clear and sends flushdb (lines 317-323)
BeginClear(i) ==
    /\ Free(i)
    /\ done' = done + 1
    /\ tasks' = [tasks EXCEPT ![i] = [pc |-> "await_flushdb"]]
    /\ UNCHANGED <<enabled, semantic_enabled, exact_match_first, stats, redis, now,
                   last, written, faulted, vq>>

\* the store executes flushdb
ServeFlushdb(i) ==
    /\ tasks[i].pc = "await_flushdb"
    /\ redis' = CacheClear(stats, redis, enabled, None, {}).redis
    /\ tasks' = [tasks EXCEPT ![i] = [pc |-> "flushed"]]
    /\ UNCHANGED <<enabled, semantic_enabled, exact_match_first, stats, now, last,
                   written, done, faulted, vq>>

\* task i resumes after flushdb and resets the statistics (lines 325-333)
ResumeClear(i) ==
    /\ tasks[i].pc = "flushed"
    /\ stats' = CacheClear(stats, redis, enabled, None, {}).stats
    /\ tasks' = [tasks EXCEPT ![i] = [pc |-> "done"]]
    /\ last' = [op |-> "clear"]
    /\ UNCHANGED <<enabled, semantic_enabled, exact_match_first, redis, now,
                   written, done, faulted, vq>>

NextRace ==
    \/ \E i \in 1..MaxTasks, pm \in ConcurrentPairs : BeginGet(i, pm[1], pm[2])
    \/ \E i \in 1..MaxTasks : ServeGet(i)
    \/ \E i \in 1..MaxTasks : ResumeGot(i)
    \/ \E i \in 1..MaxTasks, r \in Responses("m") : BeginSet(i, "q", "m", r)
    \/ \E i \in 1..MaxTasks : ServeSetex(i)
    \/ \E i \in 1..MaxTasks : ResumeSet(i)
    \/ \E i \in 1..MaxTasks : BeginClear(i)
    \/ \E i \in 1..MaxTasks : ServeFlushdb(i)
    \/ \E i \in 1..MaxTasks : ResumeClear(i)

SpecRace == InitRace /\ [][NextRace]_vars


(***************************************************************************)
(* Properties.                                                             *)
(***************************************************************************)
\* by how much the last call raised a counter
Delta(counter) == stats[counter] - last.before[counter]

ExactlyOneCounted ==
    /\ Delta("total_requests") = 1
    /\ \A c \in {"exact_hits", "semantic_hits", "misses"} : Delta(c) \in {0, 1}
    /\ Delta("exact_hits") + Delta("semantic_hits") + Delta("misses") = 1

CountedAs(counter) == ExactlyOneCounted /\ Delta(counter) = 1

\* the last call was a get of the pair the call before it stored
GetAfterSet ==
    /\ last.op = "get"
    /\ last.after # None
    /\ last.after.prompt = last.prompt
    /\ last.after.model_id = last.model_id

\* the faults of a store that leave the exact entry written
PartialFaults == {"embed", "set_embedding", "set_response", "lpush", "expire"}

ReturnsStoredAsExact ==
    /\ last.result # None
    /\ last.result.content = last.after.response.content
    /\ last.result.usage = last.after.response.usage
    /\ last.result.cache_type = "exact"
    /\ "similarity_score" \notin DOMAIN last.result
    /\ CountedAs("exact_hits")

\* C2 as stated: with the cache enabled and no store failure, set followed at
\* once by get of the same pair returns the stored content and usage tagged
\* 'exact', without similarity_score, counted as an exact hit.
C2_AnyEnabledConfiguration ==
    GetAfterSet /\ enabled /\ last.after.fault = "none" /\ last.fault = "none"
        => ReturnsStoredAsExact

\* C2 (amended): the same, with the cache enabled and exact_match_first on.
C2_RoundTrip ==
    GetAfterSet /\ enabled /\ exact_match_first
    /\ last.after.fault = "none" /\ last.fault = "none"
        => ReturnsStoredAsExact

C2_Witness ==
    /\ GetAfterSet /\ enabled /\ exact_match_first
    /\ last.after.fault = "none" /\ last.fault = "none"
    /\ last.result # None
    /\ semantic_enabled

\* C3 as stated: a lookup in which a store-adapter call fails does not raise
\* and is a miss: no result, misses and total_requests +1, no hit counted.
C3_AnyFailureIsMiss ==
    last.op = "get" /\ (last.exact_failed = "store" \/ last.semantic_failed = "store")
        => ~last.raised /\ last.result = None /\ CountedAs("misses")

\* C3 (amended): a lookup in which a store-adapter call fails does not raise;
\* a failed get of the exact key counts and returns no exact hit (the semantic
\* path still runs and may hit); a failed call of the semantic path makes the
\* lookup a miss: no result, misses and total_requests +1, no hit counted.
C3_FailureAbsorbed ==
    /\ last.op = "get" => ~last.raised
    /\ last.op = "get" /\ last.exact_failed = "store"
        => /\ Delta("exact_hits") = 0
           /\ last.result = None \/ last.result.cache_type = "semantic"
    /\ last.op = "get" /\ last.semantic_failed = "store"
        => last.result = None /\ CountedAs("misses")

C3_Witness ==
    /\ last.op = "get" /\ last.exact_failed = "store"
    /\ last.result # None
    /\ CountedAs("semantic_hits")

\* a live exact entry exists for the pair of the last call
LiveExactEntry ==
    RedisGet(redis, _generate_exact_cache_key(last.prompt, last.model_id)) # None

ReturnsLiveExactEntry ==
    /\ last.result # None
    /\ last.result.cache_type = "exact"
    /\ last.result.content =
           JsonLoads(RedisGet(redis, _generate_exact_cache_key(last.prompt,
                                                               last.model_id))).content

\* C4 as stated: when the embedding provider fails, lookup does not raise, the
\* semantic path yields no match, and a live exact entry of the pair is
\* returned in every cache-enabled configuration.
C4_AnyEnabledConfiguration ==
    last.op = "get" /\ enabled /\ last.fault = "embed"
        => /\ ~last.raised
           /\ last.result = None \/ last.result.cache_type = "exact"
           /\ LiveExactEntry => ReturnsLiveExactEntry

\* C4 (amended): when the embedding provider fails, lookup does not raise and
\* the semantic path yields no match; a live exact entry of the pair is
\* returned whenever exact_match_first is on.
C4_ExactSurvivesEmbeddingFailure ==
    last.op = "get" /\ enabled /\ last.fault = "embed"
        => /\ ~last.raised
           /\ last.result = None \/ last.result.cache_type = "exact"
           /\ exact_match_first /\ LiveExactEntry => ReturnsLiveExactEntry

C4_Witness ==
    /\ last.op = "get" /\ enabled /\ last.fault = "embed"
    /\ exact_match_first /\ semantic_enabled /\ LiveExactEntry
    /\ last.result # None

\* what an exact lookup of the pair would return from the store as it is
ExactLookup(prompt, model_id) == _try_exact_match(redis, prompt, model_id, {}).result

\* per exact key: the entry is the value last set under that key, until
\* CACHE_TTL_SECONDS after that store, and none once that time has come
ExactEntriesAsWritten ==
    \A pm \in Pairs :
        LET k == _generate_exact_cache_key(pm[1], pm[2])
        IN IF k \in DOMAIN written /\ now < written[k].at + CACHE_TTL_SECONDS
           THEN /\ k \in DOMAIN redis
                /\ redis[k].val = written[k].val
                /\ redis[k].exp = written[k].at + CACHE_TTL_SECONDS
                /\ ExactLookup(pm[1], pm[2]) # None
                /\ ExactLookup(pm[1], pm[2]).content = JsonLoads(written[k].val).content
           ELSE k \notin DOMAIN redis /\ ExactLookup(pm[1], pm[2]) = None

IsExactKey(k) == \E pm \in Pairs : k = _generate_exact_cache_key(pm[1], pm[2])

\* the step is a call of set
SetStep == last'.op = "set" /\ done' = done + 1

\* C6: with the cache enabled and the store working, set writes the exact
\* entry whatever semantic_enabled and the embedding provider's outcome are;
\* with semantic_enabled (and an embedding) it writes the embedding key, the
\* response key and the candidate-list entry; without semantic_enabled it
\* leaves every key other than the exact key as it was.
C6_ExactAlwaysSemanticIfEnabled ==
    [][SetStep /\ enabled /\ last'.fault \in {"none", "embed"}
        => LET p == last'.prompt
               m == last'.model_id
               ek == _generate_exact_cache_key(p, m)
               id == CacheIdOf(p, m, last'.response)
           IN /\ ek \in DOMAIN redis'
              /\ redis'[ek] = [type |-> "string", val |-> JsonDumps(last'.response),
                               exp |-> now + CACHE_TTL_SECONDS]
              /\ semantic_enabled /\ last'.fault = "none"
                  => /\ RedisGet(redis', _generate_embedding_key(id))
                            = JsonDumps(generate_embedding(p, ProviderUp).vec)
                     /\ RedisGet(redis', _generate_response_key(id))
                            = JsonDumps(last'.response)
                     /\ Lrange(redis', _generate_semantic_key(m)) # <<>>
                     /\ Head(Lrange(redis', _generate_semantic_key(m))) = id
              /\ ~semantic_enabled
                  => /\ DOMAIN redis' = DOMAIN redis \cup {ek}
                     /\ \A k \in DOMAIN redis \ {ek} : redis'[k] = redis[k]
    ]_vars

C6_Witness ==
    /\ last.op = "set" /\ enabled /\ semantic_enabled /\ last.fault = "embed"
    /\ ExactLookup(last.prompt, last.model_id) # None
    /\ \E k \in DOMAIN redis : ~IsExactKey(k)

\* C7 as stated: after two successful stores of the same pair with different
\* content, get of the pair returns the content of the second, in every
\* cache-enabled configuration.
C7_AnyEnabledConfiguration ==
    GetAfterSet /\ enabled /\ last.after.over /\ last.fault = "none"
        => last.result # None /\ last.result.content = last.after.response.content

\* C7 (amended): after two successful stores of the same pair with different
\* content, get of the pair returns the content of the second when
\* exact_match_first is on (as an exact hit), and also when it is off provided
\* semantic caching is on and the prompt is not blank (as a semantic hit);
\* otherwise it returns nothing.
C7_LastWriteWins ==
    GetAfterSet /\ enabled /\ last.after.over /\ last.fault = "none"
        => IF exact_match_first \/ (semantic_enabled /\ ~IsBlank(last.prompt))
           THEN /\ last.result # None
                /\ last.result.content = last.after.response.content
                /\ last.result.cache_type
                       = IF exact_match_first THEN "exact" ELSE "semantic"
           ELSE last.result = None

C7_Witness ==
    /\ GetAfterSet /\ enabled /\ last.after.over /\ last.fault = "none"
    /\ ~exact_match_first
    /\ last.result # None

\* C8: an exact entry set at time t is returned by exact lookups before
\* t + CACHE_TTL_SECONDS and by none from then on, unless set again; a set of
\* the same key at t2 replaces the content and moves the expiry to
\* t2 + CACHE_TTL_SECONDS; a get changes nothing in the store.
C8_ExpiryAndRefresh ==
    [][/\ ExactEntriesAsWritten'
       /\ last'.op = "get" /\ done' = done + 1 => redis' = redis
       /\ SetStep /\ enabled /\ last'.fault # "set_exact"
           => redis'[_generate_exact_cache_key(last'.prompt, last'.model_id)]
                  = [type |-> "string", val |-> JsonDumps(last'.response),
                     exp |-> now + CACHE_TTL_SECONDS]
    ]_vars

C8_Witness ==
    /\ last.op = "set" /\ enabled /\ last.replaced /\ now > 0
    /\ redis[_generate_exact_cache_key(last.prompt, last.model_id)].exp
           = now + CACHE_TTL_SECONDS

\* C9 as stated: the embedding key and the response key of a cache_id are
\* written with the same TTL, so that they expire together.
C9_SameTtl ==
    last.op = "set" /\ enabled /\ semantic_enabled /\ last.fault = "none"
        => LET id == CacheIdOf(last.prompt, last.model_id, last.response)
           IN /\ _generate_embedding_key(id) \in DOMAIN redis
              /\ _generate_response_key(id) \in DOMAIN redis
              /\ redis[_generate_embedding_key(id)].exp
                     = redis[_generate_response_key(id)].exp


\* the greatest of a non-empty list of scores
MaxOf(similarities) ==
    CHOOSE x \in {similarities[i] : i \in 1..Len(similarities)} :
        \A j \in 1..Len(similarities) : similarities[j] <= x

\* C10: find_most_similar returns the highest-scoring candidate (the first of
\* them, with its score) if and only if that score is >= threshold: a best
\* score equal to the threshold 0.95 is accepted, a best score of 0.949999 is
\* rejected, and an empty candidate set yields no result.
C10_ThresholdAcceptance ==
    vq.op \in {"select", "search"}
        => /\ vq.similarities = <<>> => vq.result = None
           /\ vq.op = "search" /\ vq.vectors = <<>> => vq.result = None
           /\ vq.similarities # <<>>
               => LET best == MaxOf(vq.similarities)
                  IN /\ vq.result # None <=> best >= vq.threshold
                     /\ vq.result # None
                         => /\ vq.result.similarity = best
                            /\ vq.similarities[vq.result.idx] = best
                            /\ \A j \in 1..(vq.result.idx - 1) :
                                   vq.similarities[j] < best
                     /\ best = 950000 /\ vq.threshold = 950000 => vq.result # None
                     /\ best = 949999 /\ vq.threshold = 950000 => vq.result = None

C10_Witness ==
    /\ vq.op = "search"
    /\ vq.threshold = CACHE_SIMILARITY_THRESHOLD
    /\ Len(vq.similarities) = 2
    /\ MaxOf(vq.similarities) = CACHE_SIMILARITY_THRESHOLD
    /\ vq.result # None
    /\ vq.result.similarity = CACHE_SIMILARITY_THRESHOLD


\* C11: when find_most_similar returns a result, it is one index whose score
\* is the maximum over all candidates, and among several candidates holding
\* exactly the maximum it is the smallest index; the same inputs always give
\* the same result.
C11_TieBreakFirst ==
    vq.op \in {"select", "search"} /\ vq.result # None
        => /\ vq.result.idx \in 1..Len(vq.similarities)
           /\ \A j \in 1..Len(vq.similarities) :
                  /\ vq.similarities[j] <= vq.similarities[vq.result.idx]
                  /\ vq.similarities[j] = vq.similarities[vq.result.idx]
                      => vq.result.idx <= j
           /\ vq.result.similarity = vq.similarities[vq.result.idx]
           /\ vq.result = BestAbove(vq.similarities, vq.threshold)

C11_Witness ==
    /\ vq.op = "search"
    /\ Len(vq.vectors) = 2
    /\ Len(vq.similarities) = 2
    /\ vq.vectors[1] # vq.vectors[2]
    /\ vq.similarities[1] = vq.similarities[2]
    /\ vq.result # None
    /\ vq.result.idx = 1


\* the candidates a semantic lookup of the last call's pair scores, from the
\* store as it is: their ids and their scores against the prompt's embedding
CandidateIds ==
    ValidCacheIds(redis, Lrange(redis, _generate_semantic_key(last.model_id)))

CandidateScores ==
    batch_cosine_similarity(
        generate_embedding(last.prompt, ProviderUp).vec,
        [i \in 1..Len(CandidateIds) |->
            JsonLoads(RedisGet(redis, _generate_embedding_key(CandidateIds[i])))])

\* C12: every non-empty result of get carries cache_type 'exact' or 'semantic'
\* according to the path that produced it (the path whose hit counter rose);
\* similarity_score is present iff the result is semantic, and then it is the
\* score of the selected candidate (the best one, whose response is returned)
\* and is >= the configured threshold.
C12_ResultTagging ==
    last.op = "get" /\ last.result # None
        => /\ last.result.cache_type \in {"exact", "semantic"}
           /\ last.result.cache_type = "exact" <=> Delta("exact_hits") = 1
           /\ last.result.cache_type = "semantic" <=> Delta("semantic_hits") = 1
           /\ last.result.cache_type = "exact"
               => /\ exact_match_first
                  /\ last.result = [cache_type |-> "exact"] @@ JsonLoads(
                         RedisGet(redis, _generate_exact_cache_key(last.prompt,
                                                                   last.model_id)))
           /\ "similarity_score" \in DOMAIN last.result
                  <=> last.result.cache_type = "semantic"
           /\ last.result.cache_type = "semantic"
               => /\ semantic_enabled
                  /\ last.result.similarity_score >= CACHE_SIMILARITY_THRESHOLD
                  /\ \E i \in 1..Len(CandidateIds) :
                         /\ CandidateScores[i] = last.result.similarity_score
                         /\ \A j \in 1..Len(CandidateIds) :
                                CandidateScores[j] <= CandidateScores[i]
                         /\ JsonLoads(RedisGet(redis,
                                _generate_response_key(CandidateIds[i]))).content
                                = last.result.content

C12_Witness ==
    /\ last.op = "get" /\ last.result # None
    /\ exact_match_first
    /\ last.result.cache_type = "semantic"
    /\ last.result.similarity_score < ScoreScale
    /\ Len(CandidateIds) = 2


\* C13 as stated: a candidate whose embedding length differs from the query's
\* is excluded from the candidate set: find_most_similar never returns it,
\* for any threshold in [0, 1], while the equal-length candidates are still
\* scored as if it were not there.
C13_MismatchedNeverReturned ==
    vq.op = "search" /\ vq.query_vec # <<>>
        => /\ vq.result # None
               => Len(vq.vectors[vq.result.idx]) = Len(vq.query_vec)
           /\ \A i \in 1..Len(vq.vectors) :
                  Len(vq.vectors[i]) = Len(vq.query_vec)
                      => vq.similarities[i]
                             = batch_cosine_similarity(vq.query_vec,
                                                       <<vq.vectors[i]>>)[1]


\* C14 as stated: for every pair of vectors of different length, one of them
\* empty included, cosine_similarity raises a dimension-mismatch error and
\* returns no score.
C14_MismatchAlwaysRaises ==
    vq.op = "cosine" /\ Len(vq.vec1) # Len(vq.vec2)
        => vq.result = [error |-> "ValueError"]

\* a vector all of whose components are 0 (the empty vector among them)
AllZero(v) == \A i \in 1..Len(v) : v[i] = 0

\* C15 as stated: for all equal-length vectors a and b, cosine_similarity(a, a)
\* is 1 and cosine_similarity(a, b) lies in [-1, 1]; 0 is returned, without
\* error, when either vector is all-zero.
C15_SelfSimilarityAlwaysOne ==
    vq.op = "cosine" /\ Len(vq.vec1) = Len(vq.vec2)
        => /\ "score" \in DOMAIN vq.result
           /\ vq.result.score >= -ScoreScale /\ vq.result.score <= ScoreScale
           /\ vq.vec1 = vq.vec2 => vq.result.score = ScoreScale
           /\ AllZero(vq.vec1) \/ AllZero(vq.vec2) => vq.result.score = 0

\* C15 (amended): for all equal-length vectors a and b, cosine_similarity(a, b)
\* is a score in [-1, 1]; cosine_similarity(a, a) is 1 when a is not all-zero;
\* 0 is returned, without error, when either vector is all-zero (or empty).
C15_CosineRange ==
    vq.op = "cosine" /\ Len(vq.vec1) = Len(vq.vec2)
        => /\ "score" \in DOMAIN vq.result
           /\ vq.result.score >= -ScoreScale /\ vq.result.score <= ScoreScale
           /\ vq.vec1 = vq.vec2 /\ ~AllZero(vq.vec1) => vq.result.score = ScoreScale
           /\ AllZero(vq.vec1) \/ AllZero(vq.vec2) => vq.result.score = 0

C15_Witness ==
    /\ vq.op = "cosine"
    /\ Len(vq.vec1) = 2 /\ Len(vq.vec2) = 2
    /\ AllZero(vq.vec1) /\ ~AllZero(vq.vec2)
    /\ vq.result = [score |-> 0]


\* C16 as stated: two different (model_id, prompt) pairs never feed the same
\* string to the digest, so a get that returns an exact hit returns the entry
\* stored for its own pair, never the one stored for a different pair.
C16_ExactKeyInjective ==
    last.op = "get" /\ last.result # None /\ last.result.cache_type = "exact"
        => LET k == _generate_exact_cache_key(last.prompt, last.model_id)
           IN /\ k \in DOMAIN written
              /\ written[k].pair = <<last.prompt, last.model_id>>


\* the tasks at a given position
TasksAt(positions) == {i \in 1..MaxTasks : tasks[i].pc \in positions}

\* no call of get is suspended
Quiescent == TasksAt({"await_get", "await_lrange"}) = {}

\* C17: N concurrent calls of get against an empty cache, in any interleaving
\* of their suspension points and with none cancelled, count one request per
\* call begun and one miss per call completed, and no hit: when all N have
\* completed, total_requests = N, misses = N and both hit counters are 0.
C17_ConcurrentMisses ==
    TasksAt({"cancelled"}) = {}
        => /\ stats.total_requests = Cardinality(TasksAt({"await_get", "await_lrange",
                                                           "done"}))
           /\ stats.misses = Cardinality(TasksAt({"done"}))
           /\ stats.exact_hits = 0 /\ stats.semantic_hits = 0
           /\ Quiescent => stats.total_requests = stats.misses

C17_Witness ==
    /\ TasksAt({"done"}) = 1..MaxTasks
    /\ stats.misses = MaxTasks
    /\ \E i \in 1..MaxTasks :
           tasks[i].seen.total_requests = MaxTasks /\ tasks[i].seen.misses = 1

\* C18 as stated: counters are incremented only once the outcome of a lookup
\* is known, so after any mix of completed and cancelled lookups, with none in
\* flight, total_requests = exact_hits + semantic_hits + misses.
C18_CancelKeepsCounters ==
    Quiescent
        => stats.total_requests
               = stats.exact_hits + stats.semantic_hits + stats.misses


Counters == {"exact_hits", "semantic_hits", "misses", "total_requests"}

\* the step is a call of clear that flushes the store
ClearStep ==
    /\ last'.op = "clear" /\ done' = done + 1
    /\ enabled /\ last'.fault = "none"

\* C19: a successful clear, whatever account argument it is given, leaves all
\* four counters 0 and the store empty; on an empty store every get returns
\* nothing, and the store stays empty until a set; no step other than a
\* successful clear decreases a counter.
C19_ClearIsGlobalReset ==
    [][/\ ClearStep => stats' = ZeroStats /\ redis' = EmptyStore
       /\ ~ClearStep => \A c \in Counters : stats'[c] >= stats[c]
       /\ redis = EmptyStore /\ last'.op # "set" => redis' = EmptyStore
       /\ redis = EmptyStore /\ last'.op = "get" /\ done' = done + 1
           => /\ last'.result = None
              /\ enabled => stats'.misses = stats.misses + 1
    ]_vars

C19_Witness ==
    /\ last.op = "clear" /\ enabled /\ last.fault = "none"
    /\ last.account_id # None
    /\ last.before.total_requests > 0
    /\ last.held
    /\ stats = ZeroStats /\ redis = EmptyStore


\* C20: for every empty or whitespace-only text, generate_embedding returns a
\* vector of the configured dimension all of whose components are 0, and
\* makes no call to the embedding provider, whatever the provider would answer.
C20_BlankTextZeroVector ==
    vq.op = "embed" /\ vq.text \in {"", " ", " \t\n"}
        => /\ vq.result # None
           /\ Len(vq.result.vec) = EmbeddingDim
           /\ \A i \in 1..EmbeddingDim : vq.result.vec[i] = 0
           /\ vq.result.calls = 0

C20_Witness ==
    /\ vq.op = "embed" /\ vq.text = " \t\n"
    /\ vq.outcomes[1] = "ok"
    /\ vq.result # None
    /\ vq.result.calls = 0


\* C21: generate_embedding of a non-blank text calls the provider at most 3
\* times: it returns after the first attempt the provider answers (the
\* provider's vector, or the zero vector when the answer holds no embedding),
\* having made exactly that many calls, and it surfaces the failure, returning
\* no vector, exactly when all 3 attempts fail.
C21_BoundedRetry ==
    vq.op = "embed" /\ vq.text \notin {"", " ", " \t\n"}
        => /\ vq.result = None <=> \A k \in 1..3 : vq.outcomes[k] = "error"
           /\ vq.result # None
               => /\ vq.result.calls \in 1..3
                  /\ vq.outcomes[vq.result.calls] # "error"
                  /\ \A k \in 1..(vq.result.calls - 1) : vq.outcomes[k] = "error"
                  /\ vq.outcomes[vq.result.calls] = "ok"
                      => vq.result.vec = ProviderEmbedding(vq.text)
                  /\ vq.outcomes[vq.result.calls] = "empty"
                      => vq.result.vec = ZeroVector(EmbeddingDim)

C21_Witness ==
    /\ vq.op = "embed" /\ vq.text = "q"
    /\ vq.outcomes = <<"error", "error", "ok">>
    /\ vq.result # None
    /\ vq.result.calls = 3


\* the embedding call of a batch item fails after its retries
ItemFails(item) ==
    /\ item[1] \notin {"", " ", " \t\n"}
    /\ \A k \in 1..3 : item[2][k] = "error"

\* C22: generate_embeddings_batch returns, for every input list, a list of the
\* same length and order: the zero vector of the configured dimension for
\* each item whose embedding call failed after its retries, the text's
\* embedding for every other item, and the empty list for an empty input.
C22_BatchNeverFails ==
    vq.op = "batch"
        => /\ vq.result # None
           /\ Len(vq.result.embeddings) = Len(vq.items)
           /\ vq.items = <<>> => vq.result.embeddings = <<>>
           /\ \A i \in 1..Len(vq.items) :
                  IF ItemFails(vq.items[i])
                  THEN /\ Len(vq.result.embeddings[i]) = EmbeddingDim
                       /\ \A j \in 1..EmbeddingDim : vq.result.embeddings[i][j] = 0
                  ELSE vq.result.embeddings[i]
                           = generate_embedding(vq.items[i][1], vq.items[i][2]).vec

C22_Witness ==
    /\ vq.op = "batch"
    /\ Len(vq.items) = 2
    /\ ItemFails(vq.items[1]) /\ ~ItemFails(vq.items[2])
    /\ vq.items[2][1] = "q"
    /\ vq.result.embeddings = <<ZeroVector(EmbeddingDim), ProviderEmbedding("q")>>


\* the rounded amount v (10^-6 dollars) is a multiple of 10^-6 nearest to the
\* exact amount x (10^-10 dollars)
Nearest6(v, x) ==
    /\ 2 * (v * MicroDollar - x) <= MicroDollar
    /\ 2 * (x - v * MicroDollar) <= MicroDollar

\* the multiplier of a region, 1.0 for a region without one
MultiplierOf(region) ==
    IF region \in DOMAIN REGIONAL_MULTIPLIERS THEN REGIONAL_MULTIPLIERS[region] ELSE 100

\* C23: for a model of the pricing table, calculate_cost returns
\* input_cost = input_tokens/1000 * input_per_1k and
\* output_cost = output_tokens/1000 * output_per_1k at the model's price in
\* the region, and total_cost = input_cost + output_cost (the unrounded sum),
\* each rounded to 6 decimal digits; amazon.titan-text-lite-v1 with 1000 input
\* and 1000 output tokens at base prices yields 0.00015, 0.0002 and 0.00035.
C23_CostFormula ==
    vq.op = "cost" /\ vq.model_id \in DOMAIN BEDROCK_PRICING
        => LET price == BEDROCK_PRICING[vq.model_id]
               exact_input == vq.input_tokens * price.input_per_1k
                                  * MultiplierOf(vq.region)
               exact_output == vq.output_tokens * price.output_per_1k
                                   * MultiplierOf(vq.region)
           IN  /\ "error" \notin DOMAIN vq.result
               /\ Nearest6(vq.result.input_cost, exact_input)
               /\ Nearest6(vq.result.output_cost, exact_output)
               /\ Nearest6(vq.result.total_cost, exact_input + exact_output)
               /\ /\ vq.model_id = "amazon.titan-text-lite-v1"
                  /\ vq.input_tokens = 1000 /\ vq.output_tokens = 1000
                  /\ vq.region = "us-east-1"
                  => /\ vq.result.input_cost = 150
                     /\ vq.result.output_cost = 200
                     /\ vq.result.total_cost = 350

C23_Witness ==
    /\ vq.op = "cost"
    /\ vq.model_id = "amazon.titan-text-lite-v1"
    /\ vq.input_tokens = 1000 /\ vq.output_tokens = 1000
    /\ vq.region = "us-east-1"
    /\ vq.result.input_cost = 150
    /\ vq.result.output_cost = 200
    /\ vq.result.total_cost = 350


\* C24: calculate_cost does not fail on a model absent from the pricing table:
\* for every such model_id, token counts and region it returns the cost
\* figures the default model anthropic.claude-3-5-sonnet-20241022-v2:0 gets
\* for the same tokens and region, in a breakdown that keeps the requested
\* model_id.
C24_UnknownModelFallback ==
    vq.op = "cost" /\ vq.model_id \notin DOMAIN BEDROCK_PRICING
        => LET default == calculate_cost("anthropic.claude-3-5-sonnet-20241022-v2:0",
                              vq.input_tokens, vq.output_tokens, vq.region, vq.up)
           IN  /\ "error" \notin DOMAIN vq.result
               /\ "error" \notin DOMAIN default
               /\ vq.result.input_cost = default.input_cost
               /\ vq.result.output_cost = default.output_cost
               /\ vq.result.total_cost = default.total_cost
               /\ vq.result.model_id = vq.model_id
               /\ vq.result.input_tokens = vq.input_tokens
               /\ vq.result.output_tokens = vq.output_tokens
               /\ vq.result.region = vq.region

C24_Witness ==
    /\ vq.op = "cost"
    /\ vq.model_id = "unknown.model-v1:0"
    /\ vq.input_tokens = 1000 /\ vq.output_tokens = 1000
    /\ vq.region = "eu-west-1"
    /\ "error" \notin DOMAIN vq.result
    /\ vq.result.input_cost = 3300
    /\ vq.result.output_cost = 16500
    /\ vq.result.total_cost = 19800
    /\ vq.result.model_id = "unknown.model-v1:0"


\* the exact cost of the lookup's embedding (10^-10 dollars)
EmbeddingCostOf(input_tokens, region, include_embedding_cost) ==
    IF include_embedding_cost
    THEN input_tokens * BEDROCK_PRICING["amazon.titan-embed-text-v1"].input_per_1k
             * MultiplierOf(region)
    ELSE 0

\* C25 as stated: net_savings is negative whenever the embedding cost exceeds
\* the avoided inference cost (cost_saved).
C25_NegativeWhenEmbeddingExceeds ==
    /\ vq.op = "savings"
    /\ "error" \notin DOMAIN vq.result
    /\ EmbeddingCostOf(vq.input_tokens, vq.region, vq.include_embedding_cost)
           > vq.result.cost_saved * MicroDollar
    => vq.result.net_savings < 0

\* C25, amended: calculate_cache_savings returns cost_saved = the total_cost of
\* calculate_cost and net_savings = cost_saved - embedding cost rounded to 6
\* decimal digits, with no clamp at zero; net_savings is negative only if the
\* embedding cost exceeds cost_saved, and it is never negative for a model
\* other than the embedding model itself, whose prices are all above the
\* embedding price: there a difference below zero is smaller than half of
\* 10^-6 and rounds to zero.
C25_NetSavings ==
    vq.op = "savings"
        => LET embedding == EmbeddingCostOf(vq.input_tokens, vq.region,
                                            vq.include_embedding_cost)
           IN  /\ "error" \notin DOMAIN vq.result
               /\ vq.result.cost_saved
                      = calculate_cost(vq.model_id, vq.input_tokens,
                            vq.output_tokens, vq.region, vq.up).total_cost
               /\ vq.result.net_savings
                      = Round6(vq.result.cost_saved * MicroDollar - embedding,
                               vq.up[5])
               /\ Nearest6(vq.result.net_savings,
                           vq.result.cost_saved * MicroDollar - embedding)
               /\ Nearest6(vq.result.embedding_cost, embedding)
               /\ vq.result.net_savings < 0
                      => embedding > vq.result.cost_saved * MicroDollar
               /\ vq.model_id # "amazon.titan-embed-text-v1"
                      => vq.result.net_savings >= 0

C25_Witness ==
    /\ vq.op = "savings"
    /\ vq.model_id = "amazon.titan-embed-text-v1"
    /\ vq.input_tokens = 1405 /\ vq.output_tokens = 0
    /\ vq.region = "us-east-1"
    /\ vq.include_embedding_cost
    /\ vq.result.cost_saved = 140
    /\ vq.result.net_savings = -1


\* the step is a call of get_stats
StatsStep == vq = NoOp /\ vq'.op = "stats"

\* C26 as stated: the reported hit_rate is the quotient
\* (exact_hits + semantic_hits) / total_requests itself.
C26_HitRateIsQuotient ==
    vq.op = "stats" /\ stats.total_requests > 0
        => vq.result.hit_rate * stats.total_requests
               = (stats.exact_hits + stats.semantic_hits) * TenThousandths

\* C26, amended: get_stats reports hit_rate =
\* (exact_hits + semantic_hits) / total_requests rounded to 4 decimal digits,
\* and 0 when total_requests is 0; with 30 exact hits, 10 semantic hits and 60
\* misses over 100 requests it reports 0.40; the call changes no counter and
\* reports the counters as they are.
C26_HitRateRounded ==
    [][StatsStep
        => /\ stats' = stats
           /\ LET total == stats.total_requests
                  hits == stats.exact_hits + stats.semantic_hits
                  reported == vq'.result
              IN  /\ total = 0 => reported.hit_rate = 0
                  /\ total > 0
                       => /\ 2 * (reported.hit_rate * total - hits * TenThousandths)
                                 <= total
                          /\ 2 * (hits * TenThousandths - reported.hit_rate * total)
                                 <= total
                  /\ /\ stats.exact_hits = 30 /\ stats.semantic_hits = 10
                     /\ stats.misses = 60 /\ total = 100
                     => reported.hit_rate = 4000
                  /\ reported.total_requests = total
                  /\ reported.exact_hits = stats.exact_hits
                  /\ reported.semantic_hits = stats.semantic_hits
                  /\ reported.misses = stats.misses]_vars

C26_Witness ==
    /\ vq.op = "stats"
    /\ stats = [exact_hits |-> 30, semantic_hits |-> 10, misses |-> 60,
                total_requests |-> 100]
    /\ vq.result.hit_rate = 4000
    /\ vq.result.total_requests = 100


\* the model whose prices the handler's cost is computed at
PricedAs(model_id) ==
    IF model_id \in DOMAIN BEDROCK_PRICING THEN model_id
    ELSE "anthropic.claude-3-5-sonnet-20241022-v2:0"

\* C27: in invoke_model, trouble of the cache or of the pricing table is no
\* failure of the request: whatever call of the cache store or of the
\* embedding provider fails during the lookup or the store, and whether or not
\* the model has a pricing row, a request whose inference call would succeed
\* is answered 200; unless the lookup returned a hit, the answer carries the
\* live inference response of the selected model; its cost is computed at the
\* model's prices, at those of the default model when it has no pricing row.
C27_TroubleIsNoFailure ==
    last.op = "invoke" /\ last.live # "error"
        => /\ last.response.status = 200
           /\ ~last.response.cache_hit
                  => /\ last.invoked
                     /\ last.response.content = last.live
                     /\ last.response.usage = Usage(last.live)
                     /\ last.response.model_used = select_model(last.model)
           /\ "error" \notin DOMAIN last.response.cost
           /\ LET priced == calculate_cost(PricedAs(last.response.model_used),
                                last.response.usage.input_tokens,
                                last.response.usage.output_tokens,
                                "us-east-1", NoTies)
              IN  /\ last.response.cost.input = priced.input_cost
                  /\ last.response.cost.output = priced.output_cost
                  /\ last.response.cost.total = priced.total_cost

C27_Witness ==
    /\ last.op = "invoke"
    /\ enabled /\ semantic_enabled /\ last.x_enable_cache
    /\ last.fault = "embed"
    /\ last.model = "m" /\ last.live = "b"
    /\ last.invoked /\ last.stored
    /\ last.response.status = 200
    /\ ~last.response.cache_hit
    /\ last.response.content = "b"
    /\ last.response.cost.total = 27


\* some store has written the embedding key and the response key of cache_id
BothWritten(cache_id) ==
    /\ _generate_embedding_key(cache_id) \in DOMAIN written
    /\ _generate_response_key(cache_id) \in DOMAIN written

\* the candidate lists in the store
CandidateLists == {k \in DOMAIN redis : redis[k].type = "list"}

\* C28: in store, a cache_id is pushed onto the candidate list of its model
\* only after its embedding key and its response key have been written: in
\* every interleaving of the calls of concurrent stores and lookups, one call
\* of a store failing or none, every ID on a candidate list, and so every ID a
\* lookup's lrange reads, has had both its keys written.
C28_PushedAfterWritten ==
    /\ \A k \in CandidateLists :
           \A n \in 1..Len(redis[k].val) : BothWritten(redis[k].val[n])
    /\ last.op = "lrange"
           => \A n \in 1..Len(last.cache_ids) : BothWritten(last.cache_ids[n])

C28_Witness ==
    /\ last.op = "lrange"
    /\ Len(last.cache_ids) = 1
    /\ faulted
    /\ \E i \in 1..MaxStores :
           /\ tasks[i].pc = "store"
           /\ StoreOrder[tasks[i].next] = "lpush"
           /\ tasks[i].model_id = last.model_id
           /\ CacheIdOf(tasks[i].prompt, tasks[i].model_id, tasks[i].response)
                  # last.cache_ids[1]


\* the response keys whose live blob is the one a store that completed every
\* step wrote
FullyStoredResponses ==
    {k \in DOMAIN redis \cap DOMAIN written :
        /\ "full" \in DOMAIN written[k]
        /\ written[k].full
        /\ k = _generate_response_key(written[k].cache_id)
        /\ redis[k].val = written[k].val
        /\ redis[k].exp = written[k].at + CACHE_TTL_SECONDS}

\* the sequence holds the item
Holds(seq, item) == \E n \in 1..Len(seq) : seq[n] = item

\* C29: the candidate list does not expire before the entries it references:
\* a set that completes its semantic store leaves the list of its model with
\* the TTL CACHE_TTL_SECONDS from then, and at every time the response blob
\* such a set wrote is live, the candidate list of its model is live, holds
\* its cache_id and does not expire before the blob.
C29_ListOutlivesEntries ==
    /\ last.op = "set" /\ last.semantic_written
           => LET semantic_key == _generate_semantic_key(last.model_id)
              IN  /\ semantic_key \in DOMAIN redis
                  /\ redis[semantic_key].exp = now + CACHE_TTL_SECONDS
                  /\ Head(redis[semantic_key].val)
                         = CacheIdOf(last.prompt, last.model_id, last.response)
    /\ \A k \in FullyStoredResponses :
           LET semantic_key == _generate_semantic_key(written[k].pair[2])
               cache_id == written[k].cache_id
           IN  /\ semantic_key \in DOMAIN redis
               /\ Live(redis[semantic_key].exp, now)
               /\ Holds(redis[semantic_key].val, cache_id)
               /\ \/ redis[semantic_key].exp = -1
                  \/ redis[semantic_key].exp >= redis[k].exp

C29_Witness ==
    /\ last.op = "set" /\ last.fault = "expire" /\ now = 1800
    /\ \E k \in FullyStoredResponses :
           /\ written[k].at = 0
           /\ written[k].pair[2] = last.model_id
           /\ written[k].pair[1] # last.prompt
           /\ Len(redis[_generate_semantic_key(last.model_id)].val) = 2
           /\ redis[_generate_semantic_key(last.model_id)].exp = redis[k].exp


\* the candidate list of the last call's model as the store holds it
ListedIds == Lrange(redis, _generate_semantic_key(last.model_id))

\* the n-th listed ID has a readable embedding
Readable(n) == _generate_embedding_key(ListedIds[n]) \in DOMAIN redis

\* the score of the n-th listed ID's embedding against the prompt's
ScoreOf(n) ==
    batch_cosine_similarity(
        generate_embedding(last.prompt, ProviderUp).vec,
        <<JsonLoads(RedisGet(redis, _generate_embedding_key(ListedIds[n])))>>)[1]

\* the n-th listed ID is the winner: the first of the readable IDs with the
\* greatest score
Wins(n) ==
    /\ Readable(n)
    /\ \A j \in 1..Len(ListedIds) :
           Readable(j) => /\ ScoreOf(j) <= ScoreOf(n)
                          /\ j < n => ScoreOf(j) < ScoreOf(n)

\* C30: a semantic lookup skips the listed IDs without readable embedding
\* and keeps each score with its ID: the response of a semantic hit is the one
\* stored under the cache_id whose embedding has the winning score, and the
\* hit carries that score; a lookup in which nothing fails is a miss only if
\* no readable embedding wins with a score >= the threshold and a readable
\* response.
C30_HitMatchesWinner ==
    /\ last.op = "get" /\ last.result # None /\ last.result.cache_type = "semantic"
           => \E n \in 1..Len(ListedIds) :
                  /\ Wins(n)
                  /\ last.result.similarity_score = ScoreOf(n)
                  /\ _generate_response_key(ListedIds[n]) \in DOMAIN redis
                  /\ last.result
                         = TagSemantic(JsonLoads(RedisGet(redis,
                               _generate_response_key(ListedIds[n]))), ScoreOf(n))
    /\ last.op = "get" /\ last.fault = "none" /\ last.result = None
       /\ enabled /\ semantic_enabled
           => ~ \E n \in 1..Len(ListedIds) :
                    /\ Wins(n)
                    /\ ScoreOf(n) >= CACHE_SIMILARITY_THRESHOLD
                    /\ _generate_response_key(ListedIds[n]) \in DOMAIN redis

C30_Witness ==
    /\ last.op = "get" /\ last.result # None /\ last.result.cache_type = "semantic"
    /\ Len(ListedIds) = 2
    /\ ~Readable(1) /\ Readable(2)
    /\ ListedIds[1] # ListedIds[2]
    /\ last.result.content
           = JsonLoads(RedisGet(redis, _generate_response_key(ListedIds[2]))).content


\* the n-th listed ID is a live entry for the last call's prompt: its
\* embedding is readable and scores >= the threshold, its response is readable
LiveCandidate(n) ==
    /\ Readable(n)
    /\ ScoreOf(n) >= CACHE_SIMILARITY_THRESHOLD
    /\ _generate_response_key(ListedIds[n]) \in DOMAIN redis

\* C31: a lookup in which no call fails, for a model whose candidate list holds
\* at least one live entry for the prompt, returns a hit: a better-scoring
\* candidate whose response is missing does not turn it into a miss.
C31_LiveCandidateHits ==
    last.op = "get" /\ last.fault = "none" /\ enabled /\ semantic_enabled
    /\ (\E n \in 1..Len(ListedIds) : LiveCandidate(n))
        => last.result # None

\* a request follows an identical one that missed, invoked the provider and
\* stored the response, neither met a failing call, and lookups consult the
\* exact key (CACHE_EXACT_MATCH_FIRST, the default)
RepeatsStoredRequest ==
    /\ exact_match_first
    /\ last.op = "invoke" /\ last.stored /\ last.fault = "none"
    /\ last'.op = "invoke" /\ last'.fault = "none"
    /\ last'.model = last.model
    /\ last'.prompt = last.prompt
    /\ last'.x_enable_cache

\* C32: invoke_model looks up and writes back under the same (prompt, model)
\* key: whatever the request's model field is ('auto' included), the request
\* that follows an identical one whose response was stored is an exact hit
\* and does not invoke the provider.
C32_RepeatIsExactHit ==
    [][RepeatsStoredRequest
           => /\ ~last'.invoked
              /\ last'.response.status = 200
              /\ last'.response.cache_hit
              /\ stats'.exact_hits = stats.exact_hits + 1]_vars

\* the exact entry the write-back of the last request has to leave
WrittenBack ==
    JsonDumps([model_id |-> select_model(last.model), content |-> last.live,
               usage |-> Usage(last.live)])

\* C33: with caching enabled a request is either served from a cache hit,
\* and then the provider is not invoked and the store is left as it was, or
\* it misses, and then the provider is invoked and, if and only if the
\* invocation succeeded, its response is written back; a request that
\* stores nothing leaves the store as it was, and a write-back in which no
\* call fails leaves the provider's response under the exact key.
C33_HitOrInvokeThenStore ==
    [][last'.op = "invoke" /\ last'.x_enable_cache /\ enabled
           => LET hit == last'.response.status = 200 /\ last'.response.cache_hit
              IN  /\ hit => ~last'.invoked /\ ~last'.stored
                  /\ ~hit => /\ last'.invoked
                             /\ last'.stored <=> last'.live # "error"
                  /\ ~last'.stored => redis' = redis
                  /\ last'.stored /\ last'.fault = "none"
                         => RedisGet(redis', _generate_exact_cache_key(
                                last'.prompt, select_model(last'.model)))
                                = WrittenBack']_vars

C33_Witness ==
    /\ last.op = "invoke" /\ last.x_enable_cache /\ enabled
    /\ last.response.status = 200 /\ last.response.cache_hit
    /\ ~last.invoked /\ ~last.stored
    /\ stats.misses >= 1

\* C34: with exact_match_first on, a lookup that finds a live exact entry
\* returns it without entering the semantic path: a failing embedding
\* provider or a failing read of the candidate list, of an embedding or of a
\* response is never met, and only total_requests and exact_hits are counted.
\* A semantic hit is returned only when the exact path found nothing: there
\* was no live exact entry, or the read of the exact key failed.
C34_ExactBeforeSemantic ==
    last.op = "get" /\ enabled /\ exact_match_first
        => /\ LiveExactEntry /\ last.fault # "get_exact"
               => /\ ReturnsLiveExactEntry
                  /\ last.semantic_failed = "none"
                  /\ CountedAs("exact_hits")
           /\ last.result # None /\ last.result.cache_type = "semantic"
               => ~LiveExactEntry \/ last.fault = "get_exact"

C34_Witness ==
    /\ last.op = "get" /\ enabled /\ exact_match_first /\ semantic_enabled
    /\ LiveExactEntry
    /\ last.fault = "lrange"
    /\ Lrange(redis, _generate_semantic_key(last.model_id)) # <<>>
    /\ ReturnsLiveExactEntry

\* C35: in every state the interleavings of lookups and clear reach, the
\* hits counted do not exceed the requests counted, and the hit_rate that
\* get_stats reports lies between 0 and 1.
C35_HitsWithinRequests ==
    /\ stats.exact_hits + stats.semantic_hits <= stats.total_requests
    /\ \A up \in BOOLEAN :
           get_stats(stats, semantic_enabled, CACHE_SIMILARITY_THRESHOLD, None,
                     up).hit_rate \in 0..TenThousandths

\* C36: no candidate list holds the same cache_id twice, so a list is no
\* longer than the number of distinct entries stored for its model.
C36_NoDuplicateIds ==
    \A k \in DOMAIN redis :
        redis[k].type = "list"
            => \A i, j \in 1..Len(redis[k].val) :
                   i # j => redis[k].val[i] # redis[k].val[j]

\* the models that are stored and looked up
Models == {pm[2] : pm \in Pairs}

\* C37: on the semantic path the models are isolated: a semantic hit of a
\* lookup for model m carries a response that was stored for m, and the
\* response kept under each cache_id of m's candidate list is one that was
\* stored for m.
C37_ModelIsolation ==
    /\ last.op = "get" /\ last.result # None /\ last.result.cache_type = "semantic"
           => last.result.model_id = last.model_id
    /\ \A m \in Models :
           LET ids == Lrange(redis, _generate_semantic_key(m))
           IN  \A n \in 1..Len(ids) :
                   _generate_response_key(ids[n]) \in DOMAIN redis
                       => JsonLoads(RedisGet(redis,
                              _generate_response_key(ids[n]))).model_id = m

\* by how many 10^-6 dollars the reported total exceeds the sum of the
\* reported input and output cost
TotalExcess == vq.result.total_cost - (vq.result.input_cost + vq.result.output_cost)

\* C38 as stated: the total_cost of a breakdown equals the sum of its
\* input_cost and output_cost.
C38_TotalIsSumOfParts ==
    vq.op = "cost" /\ "error" \notin DOMAIN vq.result => TotalExcess = 0

\* C38 (amended): the total_cost of a breakdown is the unrounded sum of the two
\* costs rounded to 6 decimal digits; it differs from the sum of the reported
\* input_cost and output_cost by at most 0.000001, and equals it when neither
\* cost needed rounding.
C38_TotalWithinOneMicro ==
    vq.op = "cost" /\ "error" \notin DOMAIN vq.result
        => LET pricing == get_model_pricing(PricedAs(vq.model_id), vq.region)
               exact_input == vq.input_tokens * pricing.input_per_1k
               exact_output == vq.output_tokens * pricing.output_per_1k
           IN  /\ Nearest6(vq.result.total_cost, exact_input + exact_output)
               /\ TotalExcess \in {-1, 0, 1}
               /\ exact_input % MicroDollar = 0 /\ exact_output % MicroDollar = 0
                      => TotalExcess = 0

C38_Witness ==
    /\ vq.op = "cost"
    /\ vq.model_id = "amazon.titan-text-lite-v1"
    /\ vq.input_tokens = 3 /\ vq.output_tokens = 1
    /\ vq.region = "us-east-1"
    /\ vq.result.input_cost = 0
    /\ vq.result.output_cost = 0
    /\ vq.result.total_cost = 1
====
